---- MODULE Spec2Model ----
(***************************************************************************)
(* Settlement extraction and multi-vehicle allocation engine               *)
(* (backend/app/utils/pdf_parser.py, settlement_extractor.py,              *)
(* validation.py, routers/extractor.py).                                   *)
(*                                                                         *)
(* A document is represented by what the parsers' regular expressions      *)
(* find in its text: the identifiers of the "Plate#:" line, the block      *)
(* lines (B-XXXXX) with the identifier, the dollar amounts and the fuel    *)
(* figures found on them, and the labelled summary lines in document       *)
(* order.  Money is an exact rational <<n, d>> (dollars); <<0, 0>> is      *)
(* Python's None.  Identifiers are sequences of characters, so that        *)
(* slicing, length and per-character comparison are computed as in the     *)
(* code.                                                                   *)
(***************************************************************************)
EXTENDS Integers, Sequences, FiniteSets, TLC

\* ------------------------------------------------------------------ bounds
\* Largest number of block lines of an enumerated document.
MaxBlocks == 3
\* Largest clock value at which an extraction still starts: the number of
\* extraction runs made in one behaviour.
MaxClock == 2

\* --------------------------------------------------------- exact arithmetic
RECURSIVE GCD(_, _)
GCD(a, b) == IF b = 0 THEN a ELSE GCD(b, a % b)

IAbs(n) == IF n < 0 THEN -n ELSE n

\* Python None for an amount that was not found.
NoneR == <<0, 0>>

RNorm(n, d) ==
  LET g == GCD(IAbs(n), IAbs(d))
      s == IF d < 0 THEN -1 ELSE 1
  IN  IF d = 0 THEN NoneR ELSE <<(s * n) \div g, (s * d) \div g>>

\* float("700") of a printed whole-dollar amount
R(n) == <<n, 1>>
Zero == <<0, 1>>

RAdd(x, y) == RNorm(x[1] * y[2] + y[1] * x[2], x[2] * y[2])
RSub(x, y) == RNorm(x[1] * y[2] - y[1] * x[2], x[2] * y[2])
RMul(x, y) == RNorm(x[1] * y[1], x[2] * y[2])
RDiv(x, y) == RNorm(x[1] * y[2], x[2] * y[1])
RNeg(x) == <<-x[1], x[2]>>
RAbs(x) == <<IAbs(x[1]), x[2]>>
RLt(x, y) == x[1] * y[2] < y[1] * x[2]
RLe(x, y) == x[1] * y[2] <= y[1] * x[2]
RGt(x, y) == RLt(y, x)

\* Python truthiness of an Optional[float]: None and 0.0 are falsy.
Truthy(x) == x # NoneR /\ x[1] # 0
\* `x or 0`
OrZero(x) == IF Truthy(x) THEN x ELSE Zero

RECURSIVE SumSeq(_)
SumSeq(s) == IF s = <<>> THEN Zero ELSE RAdd(Head(s), SumSeq(Tail(s)))

\* sum(d.values()) of a dict with float values
RECURSIVE SumOver(_, _)
SumOver(f, S) ==
  IF S = {} THEN Zero
  ELSE LET k == CHOOSE k \in S : TRUE IN RAdd(f[k], SumOver(f, S \ {k}))
SumValues(f) == SumOver(f, DOMAIN f)

\* the one-cent tolerance of the reconciler and of the validators
Tolerance == <<1, 100>>
\* the payroll fee rate, 6.5%
PayrollRate == <<13, 200>>

\* ------------------------------------------------------------- identifiers
VW9327 == <<"V", "W", "9", "3", "2", "7">>
VW9328 == <<"V", "W", "9", "3", "2", "8">>
VW1503 == <<"V", "W", "1", "5", "0", "3">>
VV9952 == <<"V", "V", "9", "9", "5", "2">>
\* identifiers that are not on the whitelist
VW9237 == <<"V", "W", "9", "2", "3", "7">>
NVW9328 == <<"N", "V", "W", "9", "3", "2", "8">>
VV4342 == <<"V", "V", "4", "3", "4", "2">>
NVV9952 == <<"N", "V", "V", "9", "9", "5", "2">>
AB1234 == <<"A", "B", "1", "2", "3", "4">>
\* no identifier (Python None / no regex match)
NoPlate == <<>>

VALID_LICENSE_PLATES == {VW9327, VW9328, VW1503, VV9952}

invalid_plates == {VW9237, NVW9328}

\* plate_corrections: the fixed identifier-correction table
CorrectionKeys == {VW9237, NVW9328, VV4342}
plate_corrections(p) ==
  IF p = VW9237 THEN VW9327
  ELSE IF p = NVW9328 THEN VW9327
  ELSE IF p = VV4342 THEN VV9952
  ELSE p

\* p[:2] and p[1:3] of a Python string
Prefix2(p) == IF Len(p) >= 2 THEN SubSeq(p, 1, 2) ELSE p
Slice13(p) == IF Len(p) >= 3 THEN SubSeq(p, 2, 3) ELSE <<>>
PlatePrefixes == {<<"V", "W">>, <<"V", "V">>}

\* sum(1 for a, b in zip(p, q) if a != b)
diff_count(p, q) ==
  LET n == IF Len(p) < Len(q) THEN Len(p) ELSE Len(q)
  IN  Cardinality({i \in 1..n : p[i] # q[i]})

\* all the orders in which a set can be iterated
Orders(S) ==
  {o \in [1..Cardinality(S) -> S] : \A i, j \in 1..Cardinality(S) : i # j => o[i] # o[j]}

SeqToSet(s) == {s[i] : i \in 1..Len(s)}

\* -------------------------------------------------------------- documents
\* Summary labels (the words the patterns look for).
Labels == {"Gross Pay", "Net Pay", "Fuel", "IFTA", "Dispatch Fee", "Safety", "Prepass",
           "Insurance", "Driver's Pay", "Driver's Pay Fee", "Payroll Fee", "Payroll",
           "Service on Truck", "Truck Parking", "Deductions", "Reimbursement",
           "Total Expenses", "Load Miles"}

Item(l, a) == [label |-> l, amount |-> R(a), amount2 |-> NoneR]
\* income-sheet "DISPATCH FEE 10% ($ a) ($ b)"
Item2(l, a, b) == [label |-> l, amount |-> R(a), amount2 |-> R(b)]

\* A block line "B-XXXXX <driver> <identifier> $pay $driver_pay ... <fuel>":
\* token is the identifier the matching cascade finds on the line, amounts the
\* leading dollar amounts, fuelOnLine / fuelNext the fuel figure after a date
\* and time on the line itself and on the following line (0 when there is none).
Block(tok, drv, amts, f1, f2) ==
  [token |-> tok, driver |-> drv, amounts |-> amts, fuelOnLine |-> R(f1), fuelNext |-> R(f2)]

\* the amount of the first line carrying label l, or None
RECURSIVE FirstItem(_, _)
FirstItem(items, l) ==
  IF items = <<>> THEN NoneR
  ELSE IF Head(items).label = l THEN Head(items).amount
  ELSE FirstItem(Tail(items), l)

\* re.search of a plain-amount pattern ("Label $1,234.56") over the whole text:
\* income sheets print every amount in parentheses, which these patterns do
\* not match.
Plain(doc, l) == IF doc.layout = "paystub" THEN FirstItem(doc.items, l) ELSE NoneR
\* re.search of a parenthesised pattern ("LABEL ($ 1,234.56)")
Paren(doc, l) == IF doc.layout = "income_sheet" THEN FirstItem(doc.items, l) ELSE NoneR

\* the settlement date printed as "Pay Period: MM/DD/YYYY" (paystub) or the end
\* of "Date Period : MM/DD-MM/DD/YYYY" (income sheet); "None" when absent
NoDate == "None"
\* Python None for blocks_delivered
NoCount == -1

\* ------------------------------------------------- expense categories
Categories == {"fuel", "dispatch_fee", "insurance", "safety", "prepass", "ifta",
               "driver_pay", "payroll_fee", "truck_parking", "service_on_truck", "custom"}
MultiCategories == Categories \cup {"reimbursement"}
SharedKeys == <<"insurance", "safety", "prepass", "ifta">>

\* ===================================================== multi-vehicle parser
\* header_plates: the identifiers of the "Plate#:" line, in order
header_plates(doc) == doc.header

\* the identifier a block row contributes to license_plates: a leading letter
\* before a VW/VV prefix is removed
BlockSetPlate(tok) ==
  IF Len(tok) > 6 /\ tok[1] # "V" /\ Slice13(tok) \in PlatePrefixes THEN Tail(tok) ELSE tok

\* license_plates before filtering: header, block rows, concatenated names
found_plates(doc) ==
  SeqToSet(header_plates(doc))
    \cup {BlockSetPlate(doc.blocks[i].token) :
            i \in {j \in 1..Len(doc.blocks) : doc.blocks[j].token # NoPlate}}

\* valid_plates: at least 5 characters, not a known OCR error, on the whitelist
valid_plates(doc) ==
  {p \in found_plates(doc) : Len(p) >= 5 /\ p \notin invalid_plates /\ p \in VALID_LICENSE_PLATES}

\* shared_expenses / ifta_total / dispatch_fee_total / deductions_total /
\* fuel_total_from_pdf / reimbursement_total / pdf_net_pay read from the summary
shared_total(doc, l) == OrZero(Plain(doc, l))
dispatch_fee_total(doc) == OrZero(Plain(doc, "Dispatch Fee"))
deductions_total(doc) == OrZero(Plain(doc, "Deductions"))
reimbursement_total(doc) == OrZero(Plain(doc, "Reimbursement"))
fuel_total_from_pdf(doc) == Plain(doc, "Fuel")
pdf_net_pay(doc) == Plain(doc, "Net Pay")

\* plate_data as initialised for every plate of license_plates
EmptyPlateData(plates) ==
  [p \in plates |-> [gross_revenue |-> Zero, driver_pay |-> Zero, fuel |-> Zero,
                     reimbursement |-> Zero, blocks |-> 0, driver_name |-> ""]]

\* the plate a block row is processed under: leading-letter normalisation,
\* then the correction table
NormalizeBlockPlate(tok) ==
  LET p1 == IF Len(tok) > 6 /\ tok[1] # "V" /\ Slice13(tok) \in PlatePrefixes
                /\ Tail(tok) \in VALID_LICENSE_PLATES
            THEN Tail(tok) ELSE tok
  IN  plate_corrections(p1)

\* "similar plate" handling: a whitelisted VW/VV plate that has no accumulator is
\* replaced by the first accumulator plate (in dict order) differing in one character
SimilarPlate(p, ord) ==
  LET idx == {i \in 1..Len(ord) : Len(ord[i]) = 6 /\ Prefix2(ord[i]) = Prefix2(p)
                                   /\ diff_count(p, ord[i]) = 1}
  IN  IF p \notin SeqToSet(ord) /\ Len(p) = 6 /\ Prefix2(p) \in PlatePrefixes /\ idx # {}
      THEN ord[CHOOSE i \in idx : \A j \in idx : i <= j]
      ELSE p

\* re.findall(r'\$([\d,]+\.?\d*)', line): the leading amounts, then the fuel figure
DollarAmounts(b) == b.amounts \o (IF b.fuelOnLine # Zero THEN <<b.fuelOnLine>> ELSE <<>>)

\* a block row attributed to the first vehicle whenever its own identifier
\* names no accumulator
ForceAssignedPlate(b, ord, pd) ==
  IF b.token # NoPlate /\ SimilarPlate(NormalizeBlockPlate(b.token), ord) \in DOMAIN pd
  THEN SimilarPlate(NormalizeBlockPlate(b.token), ord)
  ELSE IF Len(ord) > 0 THEN ord[1] ELSE NoPlate

\* the vehicle a block row is attributed to, NoPlate when it is attributed to none
BlockPlate(b, ord, pd) ==
  IF b.token # NoPlate
  THEN LET p == NormalizeBlockPlate(b.token)
       IN  IF p \notin VALID_LICENSE_PLATES THEN NoPlate
           ELSE LET q == SimilarPlate(p, ord)
                IN  IF q \in DOMAIN pd THEN q ELSE NoPlate
  ELSE IF Len(DollarAmounts(b)) >= 1 /\ Len(ord) > 0
       THEN LET byName == {i \in 1..Len(ord) :
                             b.driver # "" /\ pd[ord[i]].driver_name = b.driver}
            IN  IF byName # {} THEN ord[CHOOSE i \in byName : \A j \in byName : i <= j]
                ELSE ord[1]
       ELSE NoPlate

\* the accumulators after one block row
AddBlock(pd, b, ord) ==
  LET p == BlockPlate(b, ord, pd)
  IN  IF p = NoPlate THEN pd
      ELSE LET old == pd[p]
               amts == DollarAmounts(b)
               paid == Len(amts) >= 1
               new == [old EXCEPT
                         !.driver_name = IF old.driver_name = "" THEN b.driver ELSE @,
                         !.gross_revenue = IF paid THEN RAdd(@, amts[1]) ELSE @,
                         !.blocks = IF paid THEN @ + 1 ELSE @,
                         !.driver_pay = IF Len(amts) >= 2 THEN RAdd(@, amts[2]) ELSE @,
                         !.fuel = RAdd(RAdd(@, b.fuelOnLine), b.fuelNext)]
           IN  [pd EXCEPT ![p] = new]

RECURSIVE ParseBlocks(_, _, _)
ParseBlocks(pd, blocks, ord) ==
  IF blocks = <<>> THEN pd
  ELSE ParseBlocks(AddBlock(pd, Head(blocks), ord), Tail(blocks), ord)

plate_data(doc, ord) == ParseBlocks(EmptyPlateData(SeqToSet(ord)), doc.blocks, ord)

total_gross(pd) == SumOver([p \in DOMAIN pd |-> pd[p].gross_revenue], DOMAIN pd)

\* a shared fixed cost's share of one vehicle
SharedShare(total, num_trucks) == RDiv(total, R(2))

\* the dispatch fee split evenly, the way the fixed shared costs are
EvenDispatchShare(fee, gross, tg) == RDiv(fee, R(2))

\* the dispatch fee of one vehicle, proportional to its gross revenue
DispatchShare(fee, gross, tg) == IF RGt(tg, Zero) THEN RDiv(RMul(fee, gross), tg) ELSE Zero

\* plate_reimbursement: the total is distributed in proportion to gross revenue
ReimbursementShare(doc, data, pd) ==
  IF data.reimbursement = Zero /\ RGt(reimbursement_total(doc), Zero) /\ RGt(total_gross(pd), Zero)
  THEN RDiv(RMul(reimbursement_total(doc), data.gross_revenue), total_gross(pd))
  ELSE data.reimbursement

\* the record of one license plate, before reconciliation
PlateSettlement(doc, pd, plate, is_first_truck, num_trucks) ==
  LET data == pd[plate]
      cats == [c \in Categories |->
                 CASE c = "fuel" -> data.fuel
                   [] c = "dispatch_fee" ->
                        DispatchShare(dispatch_fee_total(doc), data.gross_revenue, total_gross(pd))
                   [] c = "insurance" -> SharedShare(shared_total(doc, "Insurance"), num_trucks)
                   [] c = "safety" -> SharedShare(shared_total(doc, "Safety"), num_trucks)
                   [] c = "prepass" -> SharedShare(shared_total(doc, "Prepass"), num_trucks)
                   [] c = "ifta" -> SharedShare(shared_total(doc, "IFTA"), num_trucks)
                   [] c = "driver_pay" -> data.driver_pay
                   [] c = "payroll_fee" -> RMul(data.driver_pay, PayrollRate)
                   [] c = "custom" -> IF is_first_truck THEN deductions_total(doc) ELSE Zero
                   [] OTHER -> Zero]
      total_expenses == SumValues(cats)
      reimb == ReimbursementShare(doc, data, pd)
  IN  [settlement_date |-> doc.period,
       miles_driven |-> NoneR,
       blocks_delivered |-> data.blocks,
       gross_revenue |-> data.gross_revenue,
       expenses |-> total_expenses,
       net_profit |-> RAdd(RSub(data.gross_revenue, total_expenses), reimb),
       driver_name |-> data.driver_name,
       license_plate |-> plate,
       expense_categories |->
         [c \in MultiCategories |-> IF c = "reimbursement" THEN reimb ELSE cats[c]]]

\* the loop creating one record per license plate with revenue
RECURSIVE MakeSettlements(_, _, _, _, _)
MakeSettlements(doc, pd, ord, i, is_first_truck) ==
  IF i > Len(ord) THEN <<>>
  ELSE IF pd[ord[i]].gross_revenue = Zero
       THEN MakeSettlements(doc, pd, ord, i + 1, is_first_truck)
       ELSE <<PlateSettlement(doc, pd, ord[i], is_first_truck, Len(ord))>>
              \o MakeSettlements(doc, pd, ord, i + 1, FALSE)

GrossOf(st) == st.gross_revenue
NetOf(st) == st.net_profit
FuelOf(st) == st.expense_categories["fuel"]
ReimbOf(st) == st.expense_categories["reimbursement"]
FieldOf(st, f) ==
  CASE f = "gross_revenue" -> GrossOf(st)
    [] f = "net_profit" -> NetOf(st)
    [] f = "fuel" -> FuelOf(st)
    [] f = "reimbursement" -> ReimbOf(st)
SumField(ss, f) == SumSeq([i \in 1..Len(ss) |-> FieldOf(ss[i], f)])

\* net_profit = gross_revenue - expenses + reimbursement, as recomputed after an adjustment
RecomputeNet(st) ==
  [st EXCEPT !.net_profit = RAdd(RSub(st.gross_revenue, st.expenses), ReimbOf(st))]

\* fuel reconciliation: the residual against the stated fuel total is distributed
\* in proportion to gross revenue
AdjustFuel(doc, ss) ==
  IF fuel_total_from_pdf(doc) # NoneR /\ Len(ss) > 0
  THEN LET fuel_difference == RSub(fuel_total_from_pdf(doc), SumField(ss, "fuel"))
           tg == SumField(ss, "gross_revenue")
       IN  IF RGt(RAbs(fuel_difference), Tolerance) /\ RGt(tg, Zero)
           THEN [i \in 1..Len(ss) |->
                   LET adj == RMul(fuel_difference, RDiv(ss[i].gross_revenue, tg))
                   IN  RecomputeNet([ss[i] EXCEPT
                                       !.expense_categories["fuel"] = RAdd(@, adj),
                                       !.expenses = RAdd(@, adj)])]
           ELSE ss
  ELSE ss

\* the first record takes the residual into its custom category
AdjustFirst(ss, difference) ==
  [ss EXCEPT ![1] = RecomputeNet([ss[1] EXCEPT
                                    !.expenses = RAdd(@, difference),
                                    !.expense_categories["custom"] = RAdd(@, difference)])]

\* the guard under which the net-pay residual is applied to the first record
NetResidualApplies(doc, difference) ==
  RGt(RAbs(difference), Tolerance) /\ RGt(deductions_total(doc), Zero)

\* net-pay reconciliation against the stated "Net Pay"
AdjustNet(doc, ss) ==
  IF pdf_net_pay(doc) # NoneR /\ Len(ss) > 0
  THEN LET calculated_total_net == SumField(ss, "net_profit")
           total_reimbursement == SumField(ss, "reimbursement")
           diff_with_reimb == RAbs(RSub(calculated_total_net, pdf_net_pay(doc)))
           diff_without_reimb ==
             RAbs(RSub(RSub(calculated_total_net, total_reimbursement), pdf_net_pay(doc)))
           without == RLt(diff_without_reimb, diff_with_reimb) /\ RLt(diff_without_reimb, R(1))
           difference == RSub(calculated_total_net, pdf_net_pay(doc))
           s1 == IF without
                 THEN [i \in 1..Len(ss) |->
                         [ss[i] EXCEPT !.net_profit = RSub(@, ReimbOf(ss[i]))]]
                 ELSE ss
       IN  IF NetResidualApplies(doc, difference) THEN AdjustFirst(s1, difference) ELSE s1
  ELSE ss

\* the two reconciliations in the opposite order: net pay first, fuel last
NetBeforeFuel(doc, ord) ==
  AdjustFuel(doc, AdjustNet(doc, MakeSettlements(doc, plate_data(doc, ord), ord, 1, TRUE)))

\* the per-vehicle records of a multi-vehicle document after both reconciliations
MultiSettlements(doc, ord) ==
  AdjustNet(doc, AdjustFuel(doc, MakeSettlements(doc, plate_data(doc, ord), ord, 1, TRUE)))

\* the same records as the creation loop leaves them, before either reconciliation
AllocatedSettlements(doc, ord) == MakeSettlements(doc, plate_data(doc, ord), ord, 1, TRUE)

\* ============================================================== validators
\* ValidationError(level, category, ...).to_dict(); message and details are not modelled
Issue(level, category) == [level |-> level, category |-> category]

RECURSIVE Concat(_)
Concat(ss) == IF ss = <<>> THEN <<>> ELSE Head(ss) \o Concat(Tail(ss))

Mismatch(total, expected) == expected # NoneR /\ RGt(RAbs(RSub(total, expected)), Tolerance)

validate_revenue(ss, expected_total) ==
  IF Mismatch(SumSeq([i \in 1..Len(ss) |-> OrZero(ss[i].gross_revenue)]), expected_total)
  THEN <<Issue("error", "revenue")>> ELSE <<>>

\* float(expense_categories.get(key, 0) or 0)
CatOf(st, key) ==
  IF key \in DOMAIN st.expense_categories THEN OrZero(st.expense_categories[key]) ELSE Zero

validate_expenses(ss, expected_total, shared_expenses) ==
  LET num_trucks == Len(ss)
      perTruck(st) ==
        Concat([k \in 1..Len(SharedKeys) |->
                  LET expected_per_truck ==
                        IF num_trucks > 0
                        THEN RDiv(shared_expenses[SharedKeys[k]], R(num_trucks)) ELSE Zero
                  IN  IF RGt(RAbs(RSub(CatOf(st, SharedKeys[k]), expected_per_truck)), Tolerance)
                      THEN <<Issue("warning", "expenses")>> ELSE <<>>])
  IN  Concat([i \in 1..Len(ss) |-> perTruck(ss[i])])
        \o (IF Mismatch(SumSeq([i \in 1..Len(ss) |-> OrZero(ss[i].expenses)]), expected_total)
            THEN <<Issue("error", "expenses")>> ELSE <<>>)

\* int(s.get("blocks_delivered", 0) or 0)
BlocksOf(st) == IF st.blocks_delivered = NoCount THEN 0 ELSE st.blocks_delivered

RECURSIVE SumInts(_)
SumInts(s) == IF s = <<>> THEN 0 ELSE Head(s) + SumInts(Tail(s))

validate_blocks(ss, expected_total) ==
  (IF expected_total # NoCount /\ SumInts([i \in 1..Len(ss) |-> BlocksOf(ss[i])]) # expected_total
   THEN <<Issue("error", "blocks")>> ELSE <<>>)
    \o Concat([i \in 1..Len(ss) |->
                 IF BlocksOf(ss[i]) = 0 THEN <<Issue("warning", "blocks")>> ELSE <<>>])

validate_fuel(ss, expected_total) ==
  (IF Mismatch(SumSeq([i \in 1..Len(ss) |-> CatOf(ss[i], "fuel")]), expected_total)
   THEN <<Issue("error", "fuel")>> ELSE <<>>)
    \o Concat([i \in 1..Len(ss) |->
                 IF BlocksOf(ss[i]) > 0 /\ CatOf(ss[i], "fuel") = Zero
                 THEN <<Issue("warning", "fuel")>> ELSE <<>>])

validate_driver_pay(ss, expected_total) ==
  (IF Mismatch(SumSeq([i \in 1..Len(ss) |-> CatOf(ss[i], "driver_pay")]), expected_total)
   THEN <<Issue("error", "driver_pay")>> ELSE <<>>)
    \o Concat([i \in 1..Len(ss) |->
                 IF BlocksOf(ss[i]) > 0 /\ CatOf(ss[i], "driver_pay") = Zero
                 THEN <<Issue("warning", "driver_pay")>> ELSE <<>>])

validate_net_profit(ss) ==
  Concat([i \in 1..Len(ss) |->
            LET expected_net == RSub(OrZero(ss[i].gross_revenue), OrZero(ss[i].expenses))
            IN  IF RGt(RAbs(RSub(OrZero(ss[i].net_profit), expected_net)), Tolerance)
                THEN <<Issue("error", "net_profit")>> ELSE <<>>])

SelectLevel(issues, level) == SelectSeq(issues, LAMBDA e : e.level = level)

\* a result that counts warnings against validity
StrictValidationResult(errors, warnings) ==
  [present |-> TRUE, is_valid |-> Len(errors) = 0 /\ Len(warnings) = 0,
   errors |-> errors, warnings |-> warnings]

\* the validation result dict (summary counts are the lengths of the two lists)
ValidationResult(errors, warnings) ==
  [present |-> TRUE, is_valid |-> Len(errors) = 0, errors |-> errors, warnings |-> warnings]

\* no "validation" key in the output
NoValidation == [present |-> FALSE, is_valid |-> TRUE, errors |-> <<>>, warnings |-> <<>>]

validate_multi_truck_extraction(ss, expected_totals, shared_expenses) ==
  LET all_errors ==
        validate_revenue(ss, expected_totals.gross_revenue)
          \o validate_expenses(ss, expected_totals.expenses, shared_expenses)
          \o validate_blocks(ss, expected_totals.blocks_delivered)
          \o validate_fuel(ss, expected_totals.fuel)
          \o validate_driver_pay(ss, expected_totals.driver_pay)
          \o validate_net_profit(ss)
  IN  ValidationResult(SelectLevel(all_errors, "error"), SelectLevel(all_errors, "warning"))

\* expected_totals as the multi-vehicle parser fills it: "Gross Pay" and "Total Expenses" only
expected_totals(doc) ==
  [gross_revenue |-> Plain(doc, "Gross Pay"), expenses |-> Plain(doc, "Total Expenses"),
   blocks_delivered |-> NoCount, fuel |-> NoneR, driver_pay |-> NoneR]

shared_expenses_dict(doc) ==
  [k \in SeqToSet(SharedKeys) |->
     CASE k = "insurance" -> shared_total(doc, "Insurance")
       [] k = "safety" -> shared_total(doc, "Safety")
       [] k = "prepass" -> shared_total(doc, "Prepass")
       [] k = "ifta" -> shared_total(doc, "IFTA")]

\* ==================================================== single-vehicle parser
\* the settlement types that print "driver's pay" and "driver's pay fee" explicitly
ExplicitPayTypes == {"NBM TRANSPORT LLC", "277 LOGISTICS"}
\* settlement_type.upper() if settlement_type else ""
Upper(t) ==
  CASE t = "NBM Transport LLC" -> "NBM TRANSPORT LLC"
    [] t = "277 Logistics" -> "277 LOGISTICS"
    [] t = "Owner Operator Income Sheet" -> "OWNER OPERATOR INCOME SHEET"
    [] OTHER -> ""

\* the identifiers of the text in reading order: header line, then block rows
TextPlates(doc) ==
  doc.header \o SelectSeq([i \in 1..Len(doc.blocks) |-> doc.blocks[i].token],
                          LAMBDA t : t # NoPlate)

\* license_plate of the single-vehicle parser
SingleLicensePlate(doc) ==
  IF doc.layout = "income_sheet"
  THEN IF TextPlates(doc) # <<>> THEN Head(TextPlates(doc))
       ELSE IF doc.truckNo # NoPlate THEN <<"#">> \o doc.truckNo
       ELSE NoPlate
  ELSE IF doc.header # <<>> THEN doc.header[Len(doc.header)] ELSE NoPlate

\* driver's pay of one block row: the second dollar amount, else the first
\* dollar amount of the following line, when between $100 and $50,000
BlockDriverPay(b) ==
  LET ok(x) == RLe(R(100), x) /\ RLe(x, R(50000))
      amts == DollarAmounts(b)
  IN  IF Len(amts) >= 2 /\ ok(amts[2]) THEN amts[2]
      ELSE IF b.fuelNext # Zero /\ ok(b.fuelNext) THEN b.fuelNext
      ELSE Zero

total_driver_pay_from_blocks(doc) ==
  SumSeq([i \in 1..Len(doc.blocks) |-> BlockDriverPay(doc.blocks[i])])

EmptyCategories == [c \in Categories |-> Zero]

\* expense_categories[category] = amount; total_expenses += amount
Assign(st, category, amount) ==
  [cats |-> [st.cats EXCEPT ![category] = amount], total |-> RAdd(st.total, amount)]

\* the assignment, when the condition holds
Assign2(st, cond, category, amount) == IF cond THEN Assign(st, category, amount) ELSE st

\* a printed driver's pay is split into base pay and payroll fee
DeriveDriverPay(st, driver_pay_gross) ==
  IF RGt(st.cats["payroll_fee"], Zero)
  THEN Assign(st, "driver_pay", RSub(driver_pay_gross, st.cats["payroll_fee"]))
  ELSE LET base_driver_pay == RDiv(driver_pay_gross, RAdd(R(1), PayrollRate))
       IN  Assign(Assign(st, "payroll_fee", RMul(base_driver_pay, PayrollRate)),
                  "driver_pay", base_driver_pay)

\* one matched mapping: nothing when the category already has a value
ApplyMapping(st, category, amount, derive) ==
  IF st.cats[category] # Zero THEN st
  ELSE IF category = "driver_pay" /\ derive THEN DeriveDriverPay(st, amount)
  ELSE Assign(st, category, amount)

\* Format 1 expense_mappings, in order
PaystubMappings ==
  << <<"Fuel", "fuel">>, <<"IFTA", "ifta">>, <<"Dispatch Fee", "dispatch_fee">>,
     <<"Safety", "safety">>, <<"Prepass", "prepass">>, <<"Insurance", "insurance">>,
     <<"Driver's Pay", "driver_pay">>, <<"Driver's Pay Fee", "driver_pay">>,
     <<"Payroll Fee", "payroll_fee">>, <<"Payroll", "payroll_fee">>,
     <<"Service on Truck", "service_on_truck">>, <<"Truck Parking", "truck_parking">>,
     <<"Deductions", "custom">> >>

RECURSIVE PaystubLoop(_, _, _, _)
PaystubLoop(st, doc, i, derive) ==
  IF i > Len(PaystubMappings) THEN st
  ELSE LET amount == Plain(doc, PaystubMappings[i][1])
           st1 == IF amount = NoneR THEN st
                  ELSE ApplyMapping(st, PaystubMappings[i][2], amount, derive)
       IN  PaystubLoop(st1, doc, i + 1, derive)

\* Format 2: the (category, amount) candidates of one line, in mapping order
IncomeSheetCandidates(item) ==
  CASE item.label = "Dispatch Fee" ->
         IF item.amount2 # NoneR
         THEN << <<"payroll_fee", item.amount2>>, <<"payroll_fee", item.amount>> >>
         ELSE << <<"payroll_fee", item.amount>> >>
    [] item.label = "Fuel" -> << <<"fuel", item.amount>> >>
    [] item.label = "IFTA" -> << <<"ifta", item.amount>> >>
    [] item.label = "Safety" -> << <<"safety", item.amount>> >>
    [] item.label = "Prepass" -> << <<"prepass", item.amount>> >>
    [] item.label = "Insurance" -> << <<"insurance", item.amount>> >>
    [] item.label \in {"Driver's Pay", "Driver's Pay Fee"} -> << <<"driver_pay", item.amount>> >>
    [] item.label = "Payroll Fee" -> << <<"payroll_fee", item.amount>> >>
    [] item.label = "Service on Truck" -> << <<"service_on_truck", item.amount>> >>
    [] item.label = "Truck Parking" -> << <<"truck_parking", item.amount>> >>
    [] OTHER -> <<>>

\* the first candidate whose category is still 0 is applied, then the line is done
RECURSIVE ApplyFirst(_, _, _)
ApplyFirst(st, cands, derive) ==
  IF cands = <<>> THEN st
  ELSE IF st.cats[Head(cands)[1]] = Zero
       THEN ApplyMapping(st, Head(cands)[1], Head(cands)[2], derive)
       ELSE ApplyFirst(st, Tail(cands), derive)

RECURSIVE IncomeSheetLoop(_, _, _)
IncomeSheetLoop(st, items, skipPay) ==
  IF items = <<>> THEN st
  ELSE LET item == Head(items)
           st1 == IF skipPay /\ item.label \in {"Driver's Pay", "Driver's Pay Fee"} THEN st
                  ELSE ApplyFirst(st, IncomeSheetCandidates(item), ~skipPay)
       IN  IncomeSheetLoop(st1, Tail(items), skipPay)

\* the first line of the text matching "DRIVER'S PAY ... ($ x)" / "Driver's Pay $x"
RECURSIVE FirstDriversPay(_, _)
FirstDriversPay(items, withFee) ==
  IF items = <<>> THEN NoneR
  ELSE IF Head(items).label = "Driver's Pay" \/ (withFee /\ Head(items).label = "Driver's Pay Fee")
       THEN Head(items).amount
       ELSE FirstDriversPay(Tail(items), withFee)

\* Method 1: driver's pay summed over the block rows, payroll fee 6.5% of it
BlockPayStep(st, tdp) ==
  IF RGt(tdp, Zero)
  THEN Assign(Assign(st, "driver_pay", tdp), "payroll_fee", RMul(tdp, PayrollRate))
  ELSE st

\* Method 2: the printed driver's pay and driver's pay fee of the explicit types
ExplicitPayStep(st, use, dpm, dpf) ==
  Assign2(IF use /\ dpm # NoneR THEN Assign(st, "driver_pay", dpm) ELSE st,
          use /\ dpf # NoneR, "payroll_fee", dpf)

\* Format 1: the mapping loop, then the driver's pay total of the summary
PaystubStep(a, dp, derive) ==
  IF a.cats["driver_pay"] = Zero /\ derive /\ dp # NoneR THEN DeriveDriverPay(a, dp) ELSE a

\* the payroll fee line, when the category is still 0
PayrollFeeStep(st, pf) ==
  IF pf # NoneR /\ st.cats["payroll_fee"] = Zero THEN Assign(st, "payroll_fee", pf) ELSE st

\* the dispatch fee printed with a percentage, when the category is still 0
DispatchFeeStep(st, gross_revenue, pct) ==
  IF st.cats["dispatch_fee"] = Zero /\ Truthy(gross_revenue) /\ pct # <<>>
  THEN Assign(st, "dispatch_fee", Head(pct).amount)
  ELSE st

\* the mapping loops over the summary lines
MappingStep(st, doc, skip_summary_driver_pay, explicit) ==
  IF doc.layout = "income_sheet"
  THEN IncomeSheetLoop(st, doc.items, skip_summary_driver_pay \/ explicit)
  ELSE PaystubStep(PaystubLoop(st, doc, 1, ~skip_summary_driver_pay /\ ~explicit),
                   Plain(doc, "Driver's Pay"), ~skip_summary_driver_pay /\ ~explicit)

CategorizeFrom(doc, gross_revenue, tdp, skip_summary_driver_pay, explicit) ==
  DispatchFeeStep(
    PayrollFeeStep(
      MappingStep(
        ExplicitPayStep(BlockPayStep([cats |-> EmptyCategories, total |-> Zero], tdp),
                        explicit /\ ~skip_summary_driver_pay,
                        FirstDriversPay(doc.items, doc.layout = "income_sheet"),
                        FirstItem(doc.items, "Driver's Pay Fee")),
        doc, skip_summary_driver_pay, explicit),
      Plain(doc, "Payroll Fee")),
    gross_revenue,
    IF doc.layout = "income_sheet"
    THEN SelectSeq(doc.items, LAMBDA it : it.label = "Dispatch Fee" /\ it.amount2 # NoneR)
    ELSE <<>>)

BlockPayFound(tdp) == RGt(tdp, Zero)

\* expense_categories and total_expenses of the single-vehicle parser
Categorize(doc, settlement_type, gross_revenue) ==
  CategorizeFrom(doc, gross_revenue, total_driver_pay_from_blocks(doc),
                 BlockPayFound(total_driver_pay_from_blocks(doc)),
                 Upper(settlement_type) \in ExplicitPayTypes)

\* blocks_delivered of the single-vehicle parser: the number of block ids
\* (paystub), or of distinct P/L values, else of "DRIVER'S PAY" lines (income sheet)
SingleBlocks(doc) ==
  LET pays == Len(SelectSeq(doc.items,
                            LAMBDA it : it.label \in {"Driver's Pay", "Driver's Pay Fee"}))
  IN  IF doc.layout = "income_sheet"
      THEN IF doc.routes > 0 THEN doc.routes ELSE IF pays > 0 THEN pays ELSE NoCount
      ELSE IF Len(doc.blocks) > 0 THEN Len(doc.blocks) ELSE NoCount

\* Counter(driver_names).most_common(1): the most frequent name, the earliest on a tie
SingleDriverName(doc) ==
  LET names == SelectSeq([i \in 1..Len(doc.blocks) |->
                            IF doc.blocks[i].token # NoPlate THEN doc.blocks[i].driver ELSE ""],
                         LAMBDA n : n # "")
      count(n) == Cardinality({i \in 1..Len(names) : names[i] = n})
      best == {i \in 1..Len(names) : \A j \in 1..Len(names) : count(names[j]) <= count(names[i])}
  IN  IF names = <<>> THEN "" ELSE names[CHOOSE i \in best : \A j \in best : i <= j]

\* expenses: the categorized total, else gross minus net, else None
SingleExpenses(st, gross_revenue, net_found) ==
  IF RGt(st.total, Zero) THEN st.total
  ELSE IF Truthy(gross_revenue) /\ Truthy(net_found) THEN RSub(gross_revenue, net_found)
  ELSE NoneR

\* the gross-minus-net fallback is booked under "custom"
SingleCategories(st, gross_revenue, net_found) ==
  IF ~RGt(st.total, Zero) /\ Truthy(gross_revenue) /\ Truthy(net_found)
  THEN [st.cats EXCEPT !["custom"] = RSub(gross_revenue, net_found)]
  ELSE st.cats

\* net_profit: the printed net pay, else gross minus expenses
SingleNetProfit(gross_revenue, net_found, expenses) ==
  IF net_found = NoneR /\ gross_revenue # NoneR /\ expenses # NoneR
  THEN RSub(gross_revenue, expenses) ELSE net_found

SingleRecord(doc, gross_revenue, net_found, st) ==
  [settlement_date |-> doc.period,
   miles_driven |-> IF doc.layout = "income_sheet" THEN FirstItem(doc.items, "Load Miles")
                    ELSE NoneR,
   blocks_delivered |-> SingleBlocks(doc),
   gross_revenue |-> gross_revenue,
   expenses |-> SingleExpenses(st, gross_revenue, net_found),
   net_profit |-> SingleNetProfit(gross_revenue, net_found,
                                  SingleExpenses(st, gross_revenue, net_found)),
   driver_name |-> SingleDriverName(doc),
   license_plate |-> SingleLicensePlate(doc),
   expense_categories |-> SingleCategories(st, gross_revenue, net_found)]

\* the dict parse_amazon_relay_pdf returns
parse_amazon_relay_pdf(doc, settlement_type) ==
  SingleRecord(doc, FirstItem(doc.items, "Gross Pay"), FirstItem(doc.items, "Net Pay"),
               Categorize(doc, settlement_type, FirstItem(doc.items, "Gross Pay")))

\* ------------------------------------------ multi-vehicle parser, top level
\* what a parser call yields: the records, the validation dict when one is
\* returned, or an exception (raised = TRUE); path records which code produced
\* the records: "single", "multi", or "fallback" (the multi-vehicle parser
\* handing over to the single-vehicle one), allocated the multi-vehicle records
\* as they stood before reconciliation
ParserResult(raised, ss, validation, path, allocated) ==
  [raised |-> raised, settlements |-> ss, validation |-> validation, path |-> path,
   allocated |-> allocated]

\* the single-vehicle parser's record handed back by the multi-vehicle parser
FallbackResult(single_settlement, validation) ==
  ParserResult(FALSE, <<single_settlement>>, validation, "fallback", <<>>)

\* the records of the multi-vehicle parser with their validation
MultiResult(doc, ss, return_validation, allocated) ==
  ParserResult(FALSE, ss,
               IF return_validation
               THEN validate_multi_truck_extraction(
                      ss, expected_totals(doc), shared_expenses_dict(doc))
               ELSE NoValidation,
               "multi", allocated)

\* the end of the multi-vehicle parser: no vehicle with revenue falls back
MultiOrFallback(doc, settlement_type, return_validation, ss, allocated) ==
  IF ss = <<>>
  THEN FallbackResult(parse_amazon_relay_pdf(doc, settlement_type),
                      IF return_validation
                      THEN ValidationResult(<<>>, <<Issue("warning", "detection")>>)
                      ELSE NoValidation)
  ELSE MultiResult(doc, ss, return_validation, allocated)

parse_amazon_relay_pdf_multi_truck(doc, settlement_type, return_validation, ord) ==
  IF ~doc.readable
  THEN IF return_validation
       THEN ParserResult(FALSE, <<>>, ValidationResult(<<Issue("error", "parsing")>>, <<>>),
                         "multi", <<>>)
       ELSE ParserResult(TRUE, <<>>, NoValidation, "multi", <<>>)
  ELSE IF Cardinality(valid_plates(doc)) < 2
  THEN FallbackResult(parse_amazon_relay_pdf(doc, settlement_type), NoValidation)
  ELSE MultiOrFallback(doc, settlement_type, return_validation,
                       MultiSettlements(doc, ord), AllocatedSettlements(doc, ord))

\* ============================================================== extractor
NoType == "None"

_detect_settlement_type(doc) ==
  IF ~doc.readable THEN NoType
  ELSE IF doc.carrier = "NBM" THEN "NBM Transport LLC"
  ELSE IF doc.carrier = "277" THEN "277 Logistics"
  ELSE IF doc.layout = "income_sheet" THEN "Owner Operator Income Sheet"
  ELSE NoType

\* Method 2b: "VW" followed by four digits inside a block row
ReconstructVW(tok) ==
  LET at == {i \in 1..Len(tok) : i + 5 <= Len(tok) /\ tok[i] = "V" /\ tok[i + 1] = "W"}
  IN  IF at = {} THEN NoPlate
      ELSE LET i == CHOOSE i \in at : \A j \in at : i <= j
           IN  <<"V", "W">> \o SubSeq(tok, i + 2, i + 5)

\* a classifier that trusts the "Plate#:" line alone
HeaderOnlyDetection(doc) ==
  doc.readable /\ Cardinality({p \in SeqToSet(doc.header) : Len(p) >= 5}) >= 2

_detect_multiple_trucks(doc) ==
  LET hp == {p \in SeqToSet(doc.header) : Len(p) >= 5}
      toks == {doc.blocks[i].token : i \in 1..Len(doc.blocks)} \ {NoPlate}
      license_plates == hp \cup toks \cup ({ReconstructVW(t) : t \in toks} \ {NoPlate})
      valid == {p \in license_plates :
                  Len(p) >= 5 /\ Len(p) <= 8 /\ p[1] # "#" /\ p \in VALID_LICENSE_PLATES}
  IN  IF ~doc.readable THEN FALSE
      ELSE IF Cardinality(hp) >= 2 THEN TRUE
      ELSE Cardinality(valid) >= 2

\* _normalize_expense_categories
_normalize_expense_categories(categories) ==
  [k \in DOMAIN categories |-> IF categories[k] = NoneR THEN Zero ELSE categories[k]]

\* one structured_settlement of the output
Structured(sd) ==
  [settlement_date |-> sd.settlement_date,
   license_plate |-> sd.license_plate,
   driver_name |-> sd.driver_name,
   gross_revenue |-> OrZero(sd.gross_revenue),
   net_profit |-> OrZero(sd.net_profit),
   total_expenses |-> OrZero(sd.expenses),
   categories |-> _normalize_expense_categories(sd.expense_categories),
   miles_driven |-> OrZero(sd.miles_driven),
   blocks_delivered |-> IF sd.blocks_delivered = NoCount THEN 0 ELSE sd.blocks_delivered,
   driver_pay |-> OrZero(sd.expense_categories["driver_pay"]),
   payroll_fee |-> OrZero(sd.expense_categories["payroll_fee"])]

\* the parser extract_from_pdf dispatches to
UsesMultiParser(doc, settlement_type) ==
  _detect_multiple_trucks(doc) \/ Upper(settlement_type) = "NBM TRANSPORT LLC"

ParserCall(doc, settlement_type, return_validation, ord) ==
  IF UsesMultiParser(doc, settlement_type)
  THEN parse_amazon_relay_pdf_multi_truck(doc, settlement_type, return_validation, ord)
  ELSE IF ~doc.readable THEN ParserResult(TRUE, <<>>, NoValidation, "single", <<>>)
  ELSE ParserResult(FALSE, <<parse_amazon_relay_pdf(doc, settlement_type)>>, NoValidation,
                    "single", <<>>)

\* the result dict of SettlementExtractor.extract_from_pdf; `parsed` keeps the
\* parser's own records next to the structured output built from them, `path`
\* and `allocated` what the parser call recorded
Envelope(pr, settlement_type, now) ==
  [raised |-> pr.raised,
   extraction_date |-> now,
   settlement_type |-> settlement_type,
   path |-> pr.path,
   allocated |-> pr.allocated,
   parsed |-> pr.settlements,
   settlements |-> [i \in 1..Len(pr.settlements) |-> Structured(pr.settlements[i])],
   validation |-> pr.validation]

\* settlement_type: the caller's, else the detected one
ResolvedType(doc, hint) == IF hint # NoType THEN hint ELSE _detect_settlement_type(doc)

extract_from_pdf(doc, hint, return_validation, ord, now) ==
  Envelope(ParserCall(doc, ResolvedType(doc, hint), return_validation, ord),
           ResolvedType(doc, hint), now)

\* ================================================ the enumerated documents
Doc(layout, carrier, header, blocks, items) ==
  [readable |-> TRUE, layout |-> layout, carrier |-> carrier, period |-> "2024-12-28",
   header |-> header, blocks |-> blocks, items |-> items,
   truckNo |-> IF layout = "income_sheet" THEN <<"4", "1", "8">> ELSE NoPlate,
   routes |-> 0]

\* a file pdfplumber cannot open
UnreadableDoc ==
  [readable |-> FALSE, layout |-> "paystub", carrier |-> "", period |-> NoDate,
   header |-> <<>>, blocks |-> <<>>, items |-> <<>>, truckNo |-> NoPlate, routes |-> 0]

\* a document with no marker, no date, no amount and no identifier
BlankDoc ==
  [readable |-> TRUE, layout |-> "paystub", carrier |-> "", period |-> NoDate,
   header |-> <<>>, blocks |-> <<>>, items |-> <<>>, truckNo |-> NoPlate, routes |-> 0]

BlockLines ==
  {Block(VW9327, "Lee", <<R(300), R(120)>>, 30, 0),
   Block(VW9328, "Kim", <<R(100), R(40)>>, 0, 10),
   Block(VW1503, "", <<R(200)>>, 0, 0),
   Block(AB1234, "Ray", <<R(100), R(40)>>, 5, 7),
   Block(NoPlate, "Lee", <<R(100), R(40)>>, 0, 0),
   Block(VV4342, "", <<R(100), R(40)>>, 0, 0),
   Block(VW9237, "", <<R(100)>>, 0, 0),
   Block(NVV9952, "Lee", <<R(100), R(40)>>, 10, 0)}

BlockSeqs == UNION {[1..n -> BlockLines] : n \in 0..MaxBlocks}

\* the document's own total: the sum of the pay amounts of all its block rows
StatedGross(blocks) ==
  SumSeq([i \in 1..Len(blocks) |->
            IF Len(DollarAmounts(blocks[i])) >= 1 THEN DollarAmounts(blocks[i])[1] ELSE Zero])

ItemR(l, r) == [label |-> l, amount |-> r, amount2 |-> NoneR]

\* an optional summary line: <<>> when the amount is absent
Opt(l, r) == IF r = NoneR THEN <<>> ELSE <<ItemR(l, r)>>

SharedSummary(blocks) ==
  <<ItemR("Gross Pay", StatedGross(blocks)), Item("Insurance", 700), Item("Safety", 50),
    Item("Prepass", 30), Item("IFTA", 90), Item("Dispatch Fee", 60)>>

\* multi-vehicle statements: every assignment of block rows to identifiers
AllocationDocs ==
  {Doc("paystub", "", h, b, SharedSummary(b)) :
     h \in {<<>>, <<VW9327, VW9328>>},
     b \in BlockSeqs}

\* two-vehicle statements with stated totals to reconcile against
ReconcileBlocks ==
  {<<Block(VW9327, "Lee", <<R(300), R(120)>>, 30, 0), Block(VW9328, "Kim", <<R(100), R(40)>>, 0, 10)>>,
   <<Block(VW9327, "Lee", <<R(300), R(120)>>, 30, 0), Block(VW9328, "Kim", <<R(100), R(40)>>, 0, 10),
     Block(AB1234, "Ray", <<R(100), R(40)>>, 0, 0)>>}

ReconcileDocs ==
  {Doc("paystub", "", <<VW9327, VW9328>>, b,
       <<ItemR("Gross Pay", StatedGross(b))>> \o Opt("Net Pay", n) \o Opt("Fuel", f)
         \o Opt("Deductions", d) \o Opt("Reimbursement", r)) :
     b \in ReconcileBlocks,
     n \in {NoneR, <<948, 5>>, <<848, 5>>, <<1448, 5>>},
     f \in {NoneR, R(40), R(70)},
     d \in {NoneR, R(20)},
     r \in {NoneR, R(100)}}

\* single-vehicle statements of both layouts
SingleDocs ==
  {Doc(l, c, h, b,
       Opt("Gross Pay", g) \o Opt("Net Pay", n) \o Opt("Fuel", f) \o Opt("Driver's Pay", dp)
         \o Opt("Payroll Fee", pf) \o Opt("Load Miles", m)) :
     l \in {"paystub", "income_sheet"},
     c \in {"", "NBM"},
     h \in {<<>>, <<VW9327>>, <<AB1234>>},
     b \in {<<>>, <<Block(VW9327, "Lee", <<R(300), R(120)>>, 30, 0)>>},
     g \in {NoneR, R(2000)},
     n \in {NoneR, R(1600)},
     f \in {NoneR, R(100)},
     dp \in {NoneR, R(213)},
     pf \in {NoneR, R(13)},
     m \in {NoneR, R(795)}}

\* statements whose "Plate#:" line carries an identifier that is not whitelisted
HeaderDocs ==
  {Doc("paystub", "", h, b, <<ItemR("Gross Pay", R(300))>>) :
     h \in {<<AB1234, VW9237>>, <<AB1234, VW9327>>},
     b \in {<<>>, <<Block(VW9327, "Lee", <<R(300), R(120)>>, 30, 0)>>}}

\* statements printing a driver's pay total and a payroll fee, in both orders
FeeDocs ==
  {Doc(l, "", <<>>, <<>>, its) :
     l \in {"paystub", "income_sheet"},
     its \in {<<ItemR("Driver's Pay", R(213)), ItemR("Payroll Fee", R(20))>>,
              <<ItemR("Payroll Fee", R(20)), ItemR("Driver's Pay", R(213))>>}}

\* statements printing only a gross pay and a net pay, either of them 0.00
ZeroAmountDocs ==
  {Doc(l, "", <<>>, <<>>, <<ItemR("Gross Pay", g), ItemR("Net Pay", n)>>) :
     l \in {"paystub", "income_sheet"},
     g \in {Zero, R(2000)},
     n \in {Zero, R(1600)}}

Documents ==
  AllocationDocs \cup ReconcileDocs \cup SingleDocs \cup HeaderDocs \cup FeeDocs
    \cup ZeroAmountDocs
    \cup {UnreadableDoc, BlankDoc}

\* the settlement_type hints a caller passes
Hints == {NoType, "NBM Transport LLC"}

\* who calls the extractor: the /extract-data endpoint (return_validation=False)
\* or process_multi_truck_pdf (return_validation=True)
Entries == {"router", "script"}

Request(d, h, e) == [doc |-> d, hint |-> h, entry |-> e]

\* the submissions explored: multi-vehicle statements through the batch script,
\* single-vehicle statements through the endpoint, the rest through both
Requests ==
  {Request(d, NoType, "script") : d \in AllocationDocs} \cup
  {Request(d, NoType, e) : d \in ReconcileDocs, e \in Entries} \cup
  {Request(d, NoType, "router") : d \in SingleDocs \cup FeeDocs \cup ZeroAmountDocs} \cup
  {Request(d, NoType, e) : d \in HeaderDocs, e \in Entries} \cup
  {Request(d, h, e) : d \in {UnreadableDoc, BlankDoc}, h \in Hints, e \in Entries}

\* ============================================================ state machine
VARIABLES
  pc,      \* "idle" | "uploaded"
  doc,     \* the uploaded document
  hint,    \* the caller's settlement_type hint
  entry,   \* the entry point the caller uses
  clock,   \* datetime.now()
  runs,    \* the last two runs on the document, oldest first: the caller's
           \* status and the result
  trucks,      \* the rows of table trucks
  response,    \* the last response of the API: operation, status, key
  settlements, \* the committed rows of table settlements
  sessions,    \* per client, the request in progress and its database session
  autoflush,   \* whether a query flushes the session's pending rows first
  workdir,     \* the arguments of the consolidation script and the JSON files on disk
  consolidated, \* what consolidate_settlements returned
  repairs,     \* the rows of table repairs, by repair date
  printed      \* what the last run of the loan recalculation printed

extractVars == <<pc, doc, hint, entry, clock, runs>>
storeVars == <<trucks, response, settlements, sessions, autoflush>>
scriptVars == <<workdir, consolidated, repairs, printed>>
vars == <<pc, doc, hint, entry, clock, runs, trucks, response, settlements, sessions, autoflush,
          workdir, consolidated, repairs, printed>>

\* a path argument that was not given, and a file that does not exist
NoFile == [given |-> FALSE, exists |-> FALSE, source |-> "", settlements |-> <<>>]
NoSummary == [exists |-> FALSE, single_truck_pdfs |-> <<>>]

\* the consolidation script has not run
NotRun == [ran |-> FALSE]
NoFiles == [phase1_file |-> NoFile, phase2_file |-> NoFile, phase1_summary |-> NoSummary,
            phase2_consolidated |-> NoFile, extracted |-> {}]

\* the loan recalculation has not run
NotPrinted == [ran |-> FALSE, raised |-> FALSE, lines |-> <<>>]

\* the concurrent clients of the API
Clients == {1, 2}

\* a client without a request in progress
NoSession == [op |-> "", pending |-> <<>>, files |-> <<>>, truck_id |-> 0]

\* no request answered yet
NoResponse == [op |-> "", status |-> "", key |-> <<>>]

\* no document submitted yet
NothingUploaded ==
  /\ pc = "idle"
  /\ doc = BlankDoc
  /\ hint = NoType
  /\ entry = "router"
  /\ clock = 0
  /\ runs = <<>>

Init ==
  /\ NothingUploaded
  /\ trucks = {}
  /\ response = NoResponse
  /\ settlements = {}
  /\ sessions = [c \in Clients |-> NoSession]
  /\ autoflush = TRUE
  /\ workdir = NoFiles
  /\ consolidated = NotRun
  /\ repairs = <<>>
  /\ printed = NotPrinted

\* a caller submits a document
Upload(req) ==
  /\ pc = "idle"
  /\ pc' = "uploaded"
  /\ doc' = req.doc
  /\ hint' = req.hint
  /\ entry' = req.entry
  /\ runs' = <<>>
  /\ UNCHANGED <<clock, storeVars, scriptVars>>

Keep(rs, r) == IF Len(rs) < 2 THEN Append(rs, r) ELSE <<rs[2], r>>

\* the endpoint's answer: 400 when extraction raises or yields no settlements
RouterRun(res) ==
  [status |-> IF res.raised \/ res.settlements = <<>> THEN "400" ELSE "200", result |-> res]

\* POST /extract-data
extract_settlement_data(ord) ==
  /\ pc = "uploaded"
  /\ entry = "router"
  /\ clock < MaxClock
  /\ runs' = Keep(runs, RouterRun(extract_from_pdf(doc, hint, FALSE, ord, clock)))
  /\ clock' = clock + 1
  /\ UNCHANGED <<pc, doc, hint, entry, storeVars, scriptVars>>

\* the dict process_multi_truck_pdf returns
ScriptRun(res) ==
  IF res.raised
  THEN [status |-> "error",
        result |-> [res EXCEPT !.settlements = <<>>, !.parsed = <<>>, !.allocated = <<>>,
                               !.validation =
                                 ValidationResult(<<Issue("error", "processing")>>, <<>>)]]
  ELSE IF res.validation.present
  THEN [status |-> IF res.validation.is_valid THEN "success" ELSE "validation_errors",
        result |-> res]
  ELSE [status |-> "success",
        result |-> [res EXCEPT !.validation =
                                 ValidationResult(<<>>, <<Issue("warning", "validation")>>)]]

\* process_multi_truck_pdf: the extractor with validation enabled
process_multi_truck_pdf(ord) ==
  /\ pc = "uploaded"
  /\ entry = "script"
  /\ clock < MaxClock
  /\ runs' = Keep(runs, ScriptRun(extract_from_pdf(doc, hint, TRUE, ord, clock)))
  /\ clock' = clock + 1
  /\ UNCHANGED <<pc, doc, hint, entry, storeVars, scriptVars>>

\* the set order of license_plates in one run: any order of the valid plates
RunOrders == Orders(valid_plates(doc))

Next ==
  \/ \E req \in Requests : Upload(req)
  \/ \E ord \in RunOrders : extract_settlement_data(ord)
  \/ \E ord \in RunOrders : process_multi_truck_pdf(ord)

Spec == Init /\ [][Next]_vars

\* ============================================================ stored vehicles
MaxTrucks == 2

Names == {"Truck 1", "Truck 2"}
VehicleTypes == {"truck", "trailer"}
Unset == "unset"

Response(op, status, key) == [op |-> op, status |-> status, key |-> key]

\* the primary key the table gives the next row
NextId(rows) ==
  IF rows = {} THEN 1
  ELSE 1 + CHOOSE m \in {r.id : r \in rows} : \A r \in rows : r.id <= m

\* a table without the constraint
NoTruckConstraint(rows) == TRUE

\* UniqueConstraint('name', 'vehicle_type', name='unique_name_per_vehicle_type')
unique_name_per_vehicle_type(rows) ==
  \A r \in rows : \A t \in rows :
    (r.name = t.name /\ r.vehicle_type = t.vehicle_type) => r.id = t.id

\* a numeric field the request body does not carry (exclude_unset)
UnsetR == <<1, 0>>

\* the body of POST /api/trucks; registration_fee and interest_rate are not sent
TruckCreate(name, vehicle_type, cash_investment, loan_amount, current_loan_balance, total_cost) ==
  [name |-> name, vehicle_type |-> vehicle_type, cash_investment |-> cash_investment,
   loan_amount |-> loan_amount, current_loan_balance |-> current_loan_balance,
   total_cost |-> total_cost]

\* the body of PUT /api/trucks/{truck_id}, with exclude_unset
TruckUpdate(name, vehicle_type, cash_investment, loan_amount, current_loan_balance, total_cost) ==
  [name |-> name, vehicle_type |-> vehicle_type, cash_investment |-> cash_investment,
   loan_amount |-> loan_amount, current_loan_balance |-> current_loan_balance,
   total_cost |-> total_cost]

\* a row of table trucks: the columns of class Truck and the investment columns
\* the routers read and write, NULL until set
TruckRow(id, name, vehicle_type, license_plate, license_plate_history) ==
  [id |-> id, name |-> name, vehicle_type |-> vehicle_type,
   license_plate |-> license_plate, license_plate_history |-> license_plate_history,
   cash_investment |-> NoneR, loan_amount |-> NoneR, current_loan_balance |-> NoneR,
   interest_rate |-> NoneR, total_cost |-> NoneR]

\* the table after db.commit() of the given rows, and whether the commit raised
CommitTrucks(rows) ==
  IF unique_name_per_vehicle_type(rows)
  THEN [rows |-> rows, raised |-> FALSE]
  ELSE [rows |-> trucks, raised |-> TRUE]

\* the investment validation of create_truck and update_truck: TRUE when it
\* raises the 400
InvestmentRefused(vehicle_type, cash_investment, loan_amount, total_cost) ==
  IF vehicle_type = "trailer"
  THEN \/ Truthy(loan_amount) /\ RGt(loan_amount, Zero)
       \/ /\ cash_investment # NoneR
          /\ total_cost # NoneR
          /\ RGt(RAbs(RSub(total_cost, cash_investment)), <<1, 100>>)
  ELSE /\ cash_investment # NoneR
       /\ total_cost # NoneR
       /\ RGt(RAbs(RSub(total_cost, RAdd(cash_investment, OrZero(loan_amount)))), <<1, 100>>)

\* truck_dict['current_loan_balance'] of create_truck: a truck's loan amount
\* when the body gives no balance
InitialBalance(truck) ==
  IF truck.vehicle_type = "truck" /\ Truthy(truck.loan_amount)
       /\ truck.current_loan_balance = NoneR
  THEN truck.loan_amount ELSE truck.current_loan_balance

\* Truck(**truck_dict)
NewTruck(id, truck) ==
  [TruckRow(id, truck.name, truck.vehicle_type, NoPlate, <<>>) EXCEPT
     !.cash_investment = truck.cash_investment,
     !.loan_amount = truck.loan_amount,
     !.current_loan_balance = InitialBalance(truck),
     !.interest_rate = <<7, 100>>,
     !.total_cost = truck.total_cost]

\* POST /api/trucks. The request body carries investment fields for which class
\* Truck declares no column: whether Truck(**truck_dict) constructs the row or
\* raises depends on the declarative Base, hence the parameter. A request that
\* would add a row is explored while the table holds fewer than MaxTrucks rows
create_truck(truck, constructed) ==
  /\ \/ Cardinality(trucks) < MaxTrucks
     \/ \E t \in trucks : t.name = truck.name /\ t.vehicle_type = truck.vehicle_type
  /\ LET key == <<truck.name, truck.vehicle_type>>
         existing == {t \in trucks : t.name = truck.name /\ t.vehicle_type = truck.vehicle_type}
         done == CommitTrucks(trucks \cup {NewTruck(NextId(trucks), truck)})
     IN  IF \/ InvestmentRefused(truck.vehicle_type, truck.cash_investment,
                                 truck.loan_amount, truck.total_cost)
            \/ existing # {}
         THEN /\ response' = Response("create_truck", "400", key)
              /\ UNCHANGED trucks
         ELSE IF ~constructed
         THEN /\ response' = Response("create_truck", "500", key)
              /\ UNCHANGED trucks
         ELSE /\ trucks' = done.rows
              /\ response' = Response("create_truck", IF done.raised THEN "500" ELSE "200", key)
  /\ UNCHANGED <<extractVars, settlements, sessions, autoflush, scriptVars>>

\* update_data.get(field, truck.field)
Merged(sent, stored) == IF sent = UnsetR THEN stored ELSE sent

\* vehicle_type of update_truck: the one sent, else the stored one
UpdatedType(truck, truck_update) ==
  IF truck_update.vehicle_type = Unset THEN truck.vehicle_type ELSE truck_update.vehicle_type

\* the investment validation of update_truck, run when the update carries an
\* investment field
UpdateRefused(truck, truck_update) ==
  /\ \/ truck_update.loan_amount # UnsetR
     \/ truck_update.cash_investment # UnsetR
     \/ truck_update.total_cost # UnsetR
  /\ InvestmentRefused(UpdatedType(truck, truck_update),
                       Merged(truck_update.cash_investment, truck.cash_investment),
                       Merged(truck_update.loan_amount, truck.loan_amount),
                       Merged(truck_update.total_cost, truck.total_cost))

\* update_data['current_loan_balance'] once a sent loan_amount was looked at
UpdatedBalance(truck, truck_update) ==
  IF truck_update.loan_amount = UnsetR THEN truck_update.current_loan_balance
  ELSE IF UpdatedType(truck, truck_update) = "truck" /\ Truthy(truck_update.loan_amount)
  THEN Merged(truck_update.current_loan_balance, truck_update.loan_amount)
  ELSE IF UpdatedType(truck, truck_update) = "trailer" THEN NoneR
  ELSE truck_update.current_loan_balance

\* the row after setattr of the fields the update carries
UpdatedTruck(truck, truck_update) ==
  [truck EXCEPT
     !.name = IF truck_update.name = Unset THEN @ ELSE truck_update.name,
     !.vehicle_type = UpdatedType(truck, truck_update),
     !.cash_investment = Merged(truck_update.cash_investment, @),
     !.loan_amount = Merged(truck_update.loan_amount, @),
     !.current_loan_balance = Merged(UpdatedBalance(truck, truck_update), @),
     !.total_cost = Merged(truck_update.total_cost, @)]

\* the answer of update_truck for a stored row
UpdateTruckRow(truck, truck_update, done) ==
  IF UpdateRefused(truck, truck_update)
  THEN /\ response' = Response("update_truck", "400", <<truck.id>>)
       /\ UNCHANGED trucks
  ELSE /\ trucks' = done.rows
       /\ response' = Response("update_truck", IF done.raised THEN "500" ELSE "200", <<truck.id>>)

\* PUT /api/trucks/{truck_id}
update_truck(truck_id, truck_update) ==
  /\ LET found == {t \in trucks : t.id = truck_id}
     IN  IF found = {}
         THEN /\ response' = Response("update_truck", "404", <<truck_id>>)
              /\ UNCHANGED trucks
         ELSE \E truck \in found :
                UpdateTruckRow(truck, truck_update,
                               CommitTrucks((trucks \ {truck})
                                              \cup {UpdatedTruck(truck, truck_update)}))
  /\ UNCHANGED <<extractVars, settlements, sessions, autoflush, scriptVars>>

\* DELETE /api/trucks/{truck_id}
delete_truck(truck_id) ==
  /\ IF \E t \in trucks : t.id = truck_id
     THEN /\ trucks' = {t \in trucks : t.id # truck_id}
          /\ response' = Response("delete_truck", "200", <<truck_id>>)
     ELSE /\ response' = Response("delete_truck", "404", <<truck_id>>)
          /\ UNCHANGED trucks
  /\ UNCHANGED <<extractVars, settlements, sessions, autoflush, scriptVars>>

\* the amounts the explored requests carry
Cash == R(1000)
Loan == R(5000)
Cost == R(6000)

\* the purchase figures a body carries: none, or cash and total cost together
Purchases == {<<NoneR, NoneR>>, <<Cash, Cost>>}

TruckCreates ==
  {TruckCreate(n, v, p[1], l, b, p[2]) :
     n \in Names, v \in VehicleTypes, p \in Purchases, l \in {NoneR, Loan},
     b \in {NoneR, Loan}}

\* an update carrying no field
NoUpdate == TruckUpdate(Unset, Unset, UnsetR, UnsetR, UnsetR, UnsetR)

\* updates of one field, and of the loan amount together with another field
TruckUpdates ==
  {[NoUpdate EXCEPT !.name = n] : n \in Names} \cup
  {[NoUpdate EXCEPT !.vehicle_type = v] : v \in VehicleTypes} \cup
  {[NoUpdate EXCEPT !.total_cost = Cost]} \cup
  {[NoUpdate EXCEPT !.current_loan_balance = b] : b \in {NoneR, Loan}} \cup
  {[NoUpdate EXCEPT !.loan_amount = l, !.current_loan_balance = b, !.vehicle_type = v] :
     l \in {NoneR, Loan}, b \in {UnsetR, Loan}, v \in {Unset, "trailer"}}
TruckIds == 1..(MaxTrucks + 1)

NextTrucks ==
  \/ \E truck \in TruckCreates : \E constructed \in BOOLEAN : create_truck(truck, constructed)
  \/ \E truck_id \in TruckIds : \E truck_update \in TruckUpdates :
       update_truck(truck_id, truck_update)
  \/ \E truck_id \in TruckIds : delete_truck(truck_id)

SpecTrucks == Init /\ [][NextTrucks]_vars

\* ========================================================= stored settlements
MaxSettlements == 3

Dates == {"2024-12-28", "2025-01-04"}
NoTruck == 0

\* the two vehicles import_consolidated_settlements.py creates
Fleet ==
  {TruckRow(1, "Volvo 417", "truck", VW9327, <<VW9327, VV9952>>),
   TruckRow(2, "Volvo 418", "truck", VW9328, <<VW9328, VW1503>>)}

SettlementRow(id, truck_id, settlement_date) ==
  [id |-> id, truck_id |-> truck_id, settlement_date |-> settlement_date]

\* a table without the constraint
NoSettlementConstraint(rows) == TRUE

\* UniqueConstraint('truck_id', 'settlement_date', name='unique_truck_settlement')
unique_truck_settlement(rows) ==
  \A r \in rows : \A t \in rows :
    (r.truck_id = t.truck_id /\ r.settlement_date = t.settlement_date) => r.id = t.id

\* settlement_date = Column(Date, nullable=False)
DateNotNull(rows) == \A r \in rows : r.settlement_date # NoDate

\* db.add(Settlement(...)) and setattr on a loaded row, as the session holds them
Insert(truck_id, settlement_date) ==
  [kind |-> "insert", id |-> 0, truck_id |-> truck_id, settlement_date |-> settlement_date]
SetFields(id, truck_id, settlement_date) ==
  [kind |-> "update", id |-> id, truck_id |-> truck_id, settlement_date |-> settlement_date]

\* one pending change written to the table
FlushOne(rows, p) ==
  IF p.kind = "insert"
  THEN rows \cup {SettlementRow(NextId(rows), p.truck_id, p.settlement_date)}
  ELSE {IF r.id # p.id THEN r
        ELSE [r EXCEPT !.truck_id = IF p.truck_id = NoTruck THEN @ ELSE p.truck_id,
                       !.settlement_date = IF p.settlement_date = Unset THEN @
                                           ELSE p.settlement_date] : r \in rows}

RECURSIVE Flush(_, _)
Flush(rows, pending) ==
  IF pending = <<>> THEN rows ELSE Flush(FlushOne(rows, Head(pending)), Tail(pending))

\* the table after db.commit() of the session's pending changes: all of them,
\* or none when the database refuses one
CommitSettlements(pending) ==
  IF /\ unique_truck_settlement(Flush(settlements, pending))
     /\ DateNotNull(Flush(settlements, pending))
  THEN [rows |-> Flush(settlements, pending), raised |-> FALSE]
  ELSE [rows |-> settlements, raised |-> TRUE]

\* the vehicle of a license plate: the current plate first, then the plate history
TruckByPlate(license_plate) ==
  LET current == {t \in trucks : t.license_plate = license_plate}
      historic == {t \in trucks : license_plate \in SeqToSet(t.license_plate_history)}
      found == IF current # {} THEN current ELSE historic
  IN  IF license_plate = NoPlate \/ found = {} THEN NoTruck
      ELSE CHOOSE id \in {t.id : t \in found} : \A t \in found : id <= t.id

\* the duplicate query: the committed rows, and with autoflush the rows this
\* session has added
Existing(truck_id, settlement_date, pending) ==
  \/ \E r \in settlements : r.truck_id = truck_id /\ r.settlement_date = settlement_date
  \/ /\ autoflush
     /\ \E i \in 1..Len(pending) :
          pending[i].truck_id = truck_id /\ pending[i].settlement_date = settlement_date

\* the vehicle a parsed record is stored under
RecordTruck(rec, truck_id) ==
  IF truck_id # NoTruck THEN truck_id ELSE TruckByPlate(rec.license_plate)

\* the loop over settlements_data of the PDF uploads: a record without a
\* vehicle or with a stored settlement is left out
RECURSIVE UploadRecords(_, _, _)
UploadRecords(settlements_data, truck_id, pending) ==
  IF settlements_data = <<>> THEN pending
  ELSE IF \/ RecordTruck(Head(settlements_data), truck_id) = NoTruck
          \/ Existing(RecordTruck(Head(settlements_data), truck_id),
                      Head(settlements_data).settlement_date, pending)
  THEN UploadRecords(Tail(settlements_data), truck_id, pending)
  ELSE UploadRecords(Tail(settlements_data), truck_id,
                     Append(pending, Insert(RecordTruck(Head(settlements_data), truck_id),
                                            Head(settlements_data).settlement_date)))

\* the loop over data["settlements"] of the JSON upload: the first record
\* without a vehicle or with a stored settlement fails the request
RECURSIVE JsonRecords(_, _)
JsonRecords(data, pending) ==
  IF data = <<>> THEN [rejected |-> FALSE, pending |-> pending]
  ELSE IF \/ TruckByPlate(Head(data).license_plate) = NoTruck
          \/ /\ Head(data).settlement_date # NoDate
             /\ Existing(TruckByPlate(Head(data).license_plate),
                         Head(data).settlement_date, pending)
  THEN [rejected |-> TRUE, pending |-> <<>>]
  ELSE JsonRecords(Tail(data),
                   Append(pending, Insert(TruckByPlate(Head(data).license_plate),
                                          Head(data).settlement_date)))

Idle(c) == sessions[c].op = ""

\* the request is refused before anything is added to the session
Refuse(op, status, detail) ==
  /\ response' = Response(op, status, <<detail>>)
  /\ UNCHANGED <<settlements, sessions>>

\* the request has passed its checks and holds its changes in the session
Hold(c, op, pending) ==
  /\ sessions' = [sessions EXCEPT ![c] = [op |-> op, pending |-> pending,
                                          files |-> <<>>, truck_id |-> NoTruck]]
  /\ UNCHANGED <<settlements, response>>

\* POST /api/settlements, up to db.add. The request body carries
\* custom_expense_descriptions, for which class Settlement declares no column:
\* whether Settlement(**settlement_dict) constructs the row or raises depends on
\* the declarative Base, hence the parameter
create_settlement(c, settlement, constructed) ==
  /\ Idle(c)
  /\ Cardinality(settlements) < MaxSettlements
  /\ IF \A t \in trucks : t.id # settlement.truck_id
     THEN Refuse("create_settlement", "400", "truck")
     ELSE IF Existing(settlement.truck_id, settlement.settlement_date, <<>>)
     THEN Refuse("create_settlement", "400", "duplicate")
     ELSE IF ~constructed
     THEN Refuse("create_settlement", "500", "TypeError")
     ELSE Hold(c, "create_settlement",
               <<Insert(settlement.truck_id, settlement.settlement_date)>>)
  /\ UNCHANGED <<extractVars, trucks, autoflush, scriptVars>>

\* POST /api/settlements/upload, up to the last db.add
upload_settlement_pdf(c, settlements_data, truck_id) ==
  /\ Idle(c)
  /\ Cardinality(settlements) < MaxSettlements
  /\ IF UploadRecords(settlements_data, truck_id, <<>>) = <<>>
     THEN Refuse("upload_settlement_pdf", "400", "none")
     ELSE Hold(c, "upload_settlement_pdf", UploadRecords(settlements_data, truck_id, <<>>))
  /\ UNCHANGED <<extractVars, trucks, autoflush, scriptVars>>

\* POST /api/settlements/upload-bulk: the files are received
upload_settlement_pdf_bulk(c, files, truck_id) ==
  /\ Idle(c)
  /\ Cardinality(settlements) < MaxSettlements
  /\ sessions' = [sessions EXCEPT ![c] = [op |-> "upload_settlement_pdf_bulk",
                                          pending |-> <<>>, files |-> files,
                                          truck_id |-> truck_id]]
  /\ UNCHANGED <<extractVars, trucks, autoflush, settlements, response, scriptVars>>

\* the session after one file of a bulk upload is done with, and the response
\* after the last file
BulkFileDone(c) ==
  IF Len(sessions[c].files) > 1
  THEN /\ sessions' = [sessions EXCEPT ![c].files = Tail(@), ![c].pending = <<>>]
       /\ UNCHANGED response
  ELSE /\ sessions' = [sessions EXCEPT ![c] = NoSession]
       /\ response' = Response("upload_settlement_pdf_bulk", "200", <<"done">>)

\* the loop body of the bulk upload for the next file, up to its last db.add
BulkFile(c) ==
  /\ sessions[c].op = "upload_settlement_pdf_bulk"
  /\ sessions[c].pending = <<>>
  /\ IF UploadRecords(Head(sessions[c].files), sessions[c].truck_id, <<>>) = <<>>
     THEN BulkFileDone(c)
     ELSE /\ sessions' = [sessions EXCEPT ![c].pending =
                            UploadRecords(Head(sessions[c].files), sessions[c].truck_id, <<>>)]
          /\ UNCHANGED response
  /\ UNCHANGED <<extractVars, trucks, autoflush, settlements, scriptVars>>

\* POST /api/settlements/upload-json, up to the last db.add
upload_settlement_json(c, data) ==
  /\ Idle(c)
  /\ Cardinality(settlements) < MaxSettlements
  /\ IF JsonRecords(data, <<>>).rejected
     THEN Refuse("upload_settlement_json", "400", "rejected")
     ELSE Hold(c, "upload_settlement_json", JsonRecords(data, <<>>).pending)
  /\ UNCHANGED <<extractVars, trucks, autoflush, scriptVars>>

\* PUT /api/settlements/{settlement_id}, up to the last setattr
update_settlement(c, settlement_id, settlement_update) ==
  /\ Idle(c)
  /\ IF \A r \in settlements : r.id # settlement_id
     THEN Refuse("update_settlement", "404", "missing")
     ELSE Hold(c, "update_settlement",
               <<SetFields(settlement_id, settlement_update.truck_id,
                           settlement_update.settlement_date)>>)
  /\ UNCHANGED <<extractVars, trucks, autoflush, scriptVars>>

\* the status a handler answers when db.commit() raises
CommitErrorStatus(op) ==
  IF op \in {"create_settlement", "update_settlement"} THEN "500" ELSE "400"

\* db.commit() of a request, and its response
Commit(c) ==
  /\ sessions[c].pending # <<>>
  /\ settlements' = CommitSettlements(sessions[c].pending).rows
  /\ IF sessions[c].op = "upload_settlement_pdf_bulk"
     THEN BulkFileDone(c)
     ELSE /\ sessions' = [sessions EXCEPT ![c] = NoSession]
          /\ response' =
               IF CommitSettlements(sessions[c].pending).raised
               THEN Response(sessions[c].op, CommitErrorStatus(sessions[c].op),
                             <<"IntegrityError">>)
               ELSE Response(sessions[c].op, "200", <<"committed">>)
  /\ UNCHANGED <<extractVars, trucks, autoflush, scriptVars>>

\* what the parsers return for an uploaded statement: license plate and date
Parsed(license_plate, settlement_date) ==
  [license_plate |-> license_plate, settlement_date |-> settlement_date]

\* single-vehicle statements, and multi-vehicle statements of two vehicles, of
\* two plates of one vehicle
ParsedUploads ==
  {<<Parsed(VW9327, d)>> : d \in Dates}
    \cup {<<Parsed(AB1234, "2024-12-28")>>, <<Parsed(VW9328, NoDate)>>}
    \cup {<<Parsed(VW9327, "2024-12-28"), Parsed(VW9328, "2024-12-28")>>,
          <<Parsed(VW9327, "2024-12-28"), Parsed(VV9952, "2024-12-28")>>}

BulkUploads ==
  {<<<<Parsed(VW9327, "2024-12-28")>>>>,
   <<<<Parsed(VW9327, "2024-12-28")>>, <<Parsed(VV9952, "2024-12-28")>>>>,
   <<<<Parsed(AB1234, "2024-12-28")>>, <<Parsed(VW9328, "2025-01-04")>>>>}

JsonUploads ==
  {<<Parsed(VW9328, "2024-12-28")>>,
   <<Parsed(VW9327, "2025-01-04"), Parsed(VV9952, "2025-01-04")>>,
   <<Parsed(AB1234, "2024-12-28")>>}

SettlementCreates ==
  {[truck_id |-> t, settlement_date |-> d] : t \in {1, 3}, d \in Dates}
SettlementUpdates ==
  {[truck_id |-> 2, settlement_date |-> Unset],
   [truck_id |-> NoTruck, settlement_date |-> "2025-01-04"]}
SettlementIds == 1..2

InitSettlements ==
  /\ NothingUploaded
  /\ trucks = Fleet
  /\ response = NoResponse
  /\ settlements = {}
  /\ sessions = [c \in Clients |-> NoSession]
  /\ autoflush \in BOOLEAN
  /\ workdir = NoFiles
  /\ consolidated = NotRun
  /\ repairs = <<>>
  /\ printed = NotPrinted

NextSettlements ==
  \/ \E c \in Clients : \E settlement \in SettlementCreates : \E constructed \in BOOLEAN :
       create_settlement(c, settlement, constructed)
  \/ \E c \in Clients : \E settlements_data \in ParsedUploads : \E truck_id \in {NoTruck, 2} :
       upload_settlement_pdf(c, settlements_data, truck_id)
  \/ \E c \in Clients : \E files \in BulkUploads :
       upload_settlement_pdf_bulk(c, files, NoTruck)
  \/ \E c \in Clients : BulkFile(c)
  \/ \E c \in Clients : \E data \in JsonUploads : upload_settlement_json(c, data)
  \/ \E c \in Clients : \E settlement_id \in SettlementIds :
       \E settlement_update \in SettlementUpdates :
         update_settlement(c, settlement_id, settlement_update)
  \/ \E c \in Clients : Commit(c)

SpecSettlements == InitSettlements /\ [][NextSettlements]_vars

\* ============================================================= consolidation
\* JSON null
Null == <<"null">>

\* str() of a value inside an f-string
Format(v) == IF v = Null THEN <<"N", "o", "n", "e">> ELSE v

\* f"{settlement_date}|{license_plate}"
get_settlement_key(settlement) ==
  Format(settlement.settlement_date) \o <<"|">> \o Format(settlement.license_plate)

\* all_settlements, seen_keys, duplicates and sources at the start
NoneConsolidated ==
  [all_settlements |-> <<>>, seen_keys |-> {}, duplicates |-> 0, raised |-> FALSE,
   sources |-> [phase1_single_truck |-> 0, phase2_multi_truck |-> 0, individual_files |-> 0]]

\* an entry appended whatever its key
AppendAlways(acc, settlement_entry, counter, record) ==
  [acc EXCEPT !.seen_keys = @ \cup {get_settlement_key(settlement_entry)},
              !.all_settlements = Append(@, settlement_entry),
              !.sources[counter] = @ + 1]

\* one settlement entry: appended and counted when its key is new
AddEntry(acc, settlement_entry, counter, record) ==
  IF get_settlement_key(settlement_entry) \notin acc.seen_keys
  THEN [acc EXCEPT !.seen_keys = @ \cup {get_settlement_key(settlement_entry)},
                   !.all_settlements = Append(@, settlement_entry),
                   !.sources[counter] = @ + 1]
  ELSE IF record THEN [acc EXCEPT !.duplicates = @ + 1] ELSE acc

RECURSIVE AddEntries(_, _, _, _)
AddEntries(acc, entries, counter, record) ==
  IF entries = <<>> THEN acc
  ELSE AddEntries(AddEntry(acc, Head(entries), counter, record), Tail(entries), counter, record)

\* a consolidated phase file, read when it carries the expected source tag
LoadPhase(acc, file, tag, counter, record) ==
  IF file.exists /\ file.source = tag
  THEN AddEntries(acc, file.settlements, counter, record)
  ELSE acc

\* the entries built from an individual *_extracted.json
FileEntries(file) ==
  [i \in 1..Len(file.settlements) |->
     [source_file |-> file.name,
      settlement_date |-> file.settlements[i].settlement_date,
      license_plate |-> file.settlements[i].license_plate]]

\* the files phase1_summary.json lists: data["source_file"] of a file without
\* its header fields raises KeyError
RECURSIVE LoadListed(_, _, _)
LoadListed(acc, pdf_names, extracted) ==
  IF pdf_names = <<>> \/ acc.raised THEN acc
  ELSE LET listed == {f \in extracted : f.name = Head(pdf_names)}
       IN  IF listed = {} THEN LoadListed(acc, Tail(pdf_names), extracted)
           ELSE LET file == CHOOSE f \in listed : TRUE
                IN  IF file.settlements # <<>> /\ ~file.complete
                    THEN [acc EXCEPT !.raised = TRUE]
                    ELSE LoadListed(AddEntries(acc, FileEntries(file),
                                               "phase1_single_truck", FALSE),
                                    Tail(pdf_names), extracted)

\* json_directory.glob("*_extracted.json"), in the order the file system lists
RECURSIVE LoadGlob(_, _)
LoadGlob(acc, ord) ==
  IF ord = <<>> THEN acc
  ELSE IF Head(ord).phase_named THEN LoadGlob(acc, Tail(ord))
  ELSE LoadGlob(AddEntries(acc, FileEntries(Head(ord)), "individual_files", FALSE), Tail(ord))

\* the scan of the directory, when no phase file was given
ScanDirectory(acc, dir, ord) ==
  IF LoadListed(acc, IF dir.phase1_summary.exists
                     THEN dir.phase1_summary.single_truck_pdfs ELSE <<>>,
                dir.extracted).raised
  THEN [acc EXCEPT !.raised = TRUE]
  ELSE LoadGlob(LoadPhase(LoadListed(acc, IF dir.phase1_summary.exists
                                          THEN dir.phase1_summary.single_truck_pdfs
                                          ELSE <<>>,
                                     dir.extracted),
                          dir.phase2_consolidated, "phase2_multi_truck_extraction",
                          "phase2_multi_truck", FALSE),
                ord)

\* the phase files given on the command line
LoadPhaseFiles(acc, dir) ==
  LoadPhase(LoadPhase(acc, dir.phase1_file, "phase1_single_truck_extraction",
                      "phase1_single_truck", TRUE),
            dir.phase2_file, "phase2_multi_truck_extraction", "phase2_multi_truck", TRUE)

\* consolidated_data
ConsolidatedData(acc) ==
  [ran |-> TRUE, raised |-> acc.raised,
   total_settlements |-> Len(acc.all_settlements),
   sources |-> acc.sources,
   duplicates_skipped |-> acc.duplicates,
   settlements |-> acc.all_settlements]

\* consolidate_settlements(json_directory, phase1_file, phase2_file)
consolidate_settlements(ord) ==
  /\ ~consolidated.ran
  /\ consolidated' =
       ConsolidatedData(IF ~workdir.phase1_file.given /\ ~workdir.phase2_file.given
                        THEN ScanDirectory(LoadPhaseFiles(NoneConsolidated, workdir),
                                           workdir, ord)
                        ELSE LoadPhaseFiles(NoneConsolidated, workdir))
  /\ UNCHANGED <<extractVars, storeVars, workdir, repairs, printed>>

Entry(source_file, settlement_date, license_plate) ==
  [source_file |-> source_file, settlement_date |-> settlement_date,
   license_plate |-> license_plate]

Dec28 == <<"1", "2", "-", "2", "8">>
Jan04 == <<"0", "1", "-", "0", "4">>

PhaseFile(source, entries) ==
  [given |-> TRUE, exists |-> TRUE, source |-> source, settlements |-> entries]
MissingFile == [given |-> TRUE, exists |-> FALSE, source |-> "", settlements |-> <<>>]

Phase1Files ==
  {PhaseFile("phase1_single_truck_extraction", es) :
     es \in {<<>>, <<Entry("a.pdf", Dec28, VW9327)>>,
             <<Entry("a.pdf", Dec28, VW9327), Entry("a2.pdf", Dec28, VW9327)>>,
             <<Entry("a.pdf", Dec28, VW9327), Entry("b.pdf", Jan04, VW9327)>>}}
    \cup {MissingFile, PhaseFile("phase2_multi_truck_extraction",
                                 <<Entry("a.pdf", Dec28, VW9327)>>)}

Phase2Files ==
  {PhaseFile("phase2_multi_truck_extraction", es) :
     es \in {<<Entry("m.pdf", Dec28, VW9327), Entry("m.pdf", Dec28, VW9328)>>,
             <<Entry("m.pdf", Null, VW9328), Entry("n.pdf", Null, VW9328)>>,
             <<Entry("m.pdf", Jan04, NoPlate)>>}}
    \cup {MissingFile}

\* the individual extraction results a directory may hold
ExtractedFiles ==
  {[name |-> "a", phase_named |-> FALSE, complete |-> TRUE,
    settlements |-> <<[settlement_date |-> Dec28, license_plate |-> VW9327]>>],
   [name |-> "b", phase_named |-> FALSE, complete |-> FALSE,
    settlements |-> <<[settlement_date |-> Dec28, license_plate |-> VW9327],
                      [settlement_date |-> Dec28, license_plate |-> VW9328]>>],
   [name |-> "phase1_c", phase_named |-> TRUE, complete |-> TRUE,
    settlements |-> <<[settlement_date |-> Null, license_plate |-> VW9327]>>]}

Summaries ==
  {NoSummary} \cup {[exists |-> TRUE, single_truck_pdfs |-> ns] :
                      ns \in {<<"a">>, <<"phase1_c", "a">>, <<"b">>, <<"missing">>}}

\* a run on phase files, and a run that scans the directory
ScriptInputs ==
  {[NoFiles EXCEPT !.phase1_file = f1, !.phase2_file = f2] :
     f1 \in Phase1Files \cup {NoFile}, f2 \in Phase2Files \cup {NoFile}}
    \cup {[NoFiles EXCEPT !.phase1_summary = sm, !.phase2_consolidated = f2,
                          !.extracted = ex] :
            sm \in Summaries, f2 \in Phase2Files \cup {NoFile},
            ex \in SUBSET ExtractedFiles}

InitConsolidate ==
  /\ NothingUploaded
  /\ trucks = {}
  /\ response = NoResponse
  /\ settlements = {}
  /\ sessions = [c \in Clients |-> NoSession]
  /\ autoflush = TRUE
  /\ workdir \in ScriptInputs
  /\ consolidated = NotRun
  /\ repairs = <<>>
  /\ printed = NotPrinted

NextConsolidate == \E ord \in Orders(workdir.extracted) : consolidate_settlements(ord)

SpecConsolidate == InitConsolidate /\ [][NextConsolidate]_vars

\* ========================================================== loan recalculation
MaxWeeks == 3

\* the settlement dates of the explored ledgers, in calendar order
Weeks == <<"2024-12-28", "2025-01-04", "2025-01-11", "2025-01-18">>

\* the position of a date in the calendar
Ordinal(d) == CHOOSE i \in 1..Len(Weeks) : Weeks[i] = d

\* round(x, 2)
Round2(x) ==
  IF 2 * ((x[1] * 100) % x[2]) < x[2] THEN RNorm((x[1] * 100) \div x[2], 100)
  ELSE IF 2 * ((x[1] * 100) % x[2]) > x[2] THEN RNorm(((x[1] * 100) \div x[2]) + 1, 100)
  ELSE IF ((x[1] * 100) \div x[2]) % 2 = 0 THEN RNorm((x[1] * 100) \div x[2], 100)
  ELSE RNorm(((x[1] * 100) \div x[2]) + 1, 100)

RMin(x, y) == IF RLe(x, y) THEN x ELSE y
RMax(x, y) == IF RLe(x, y) THEN y ELSE x

\* calculate_weekly_loan_interest
calculate_weekly_loan_interest(loan_balance, interest_rate) ==
  IF ~Truthy(loan_balance) \/ RLe(loan_balance, Zero) THEN Zero
  ELSE IF ~Truthy(interest_rate) \/ RLe(interest_rate, Zero) THEN Zero
  ELSE Round2(RDiv(RMul(loan_balance, interest_rate), R(52)))

\* calculate_principal_payment: <<principal_payment, new_loan_balance>>
calculate_principal_payment(cumulative_net_profit, cash_investment, current_loan_balance) ==
  IF ~Truthy(cash_investment) \/ RLe(cash_investment, Zero)
  THEN <<Zero, current_loan_balance>>
  ELSE IF ~Truthy(current_loan_balance) \/ RLe(current_loan_balance, Zero)
  THEN <<Zero, current_loan_balance>>
  ELSE IF RLt(cumulative_net_profit, cash_investment)
  THEN <<Zero, current_loan_balance>>
  ELSE <<Round2(RMin(RSub(cumulative_net_profit, cash_investment), current_loan_balance)),
         Round2(RMax(Zero,
                     RSub(current_loan_balance,
                          RMin(RSub(cumulative_net_profit, cash_investment),
                               current_loan_balance))))>>

\* a row of table settlements with the columns the recalculation reads and
\* writes; loan_interest is expense_categories["loan_interest"], None when the
\* key is absent
LoanSettlement(id, truck_id, settlement_date, week_start, gross_revenue, expenses) ==
  [id |-> id, truck_id |-> truck_id, settlement_date |-> settlement_date,
   week_start |-> week_start, gross_revenue |-> gross_revenue, expenses |-> expenses,
   net_profit |-> RSub(gross_revenue, expenses), loan_interest |-> NoneR]

\* a row of table repairs
Repair(truck_id, repair_date, cost) ==
  [truck_id |-> truck_id, repair_date |-> repair_date, cost |-> cost]

\* get_settlement_date: week_start when set, else settlement_date
get_settlement_date(settlement) ==
  IF settlement.week_start # NoDate THEN settlement.week_start ELSE settlement.settlement_date

\* ORDER BY week_start ASC NULLS LAST, settlement_date ASC NULLS LAST
OrderedBefore(a, b) ==
  IF a.week_start # NoDate /\ b.week_start # NoDate /\ a.week_start # b.week_start
  THEN Ordinal(a.week_start) < Ordinal(b.week_start)
  ELSE IF (a.week_start = NoDate) # (b.week_start = NoDate)
  THEN b.week_start = NoDate
  ELSE Ordinal(a.settlement_date) <= Ordinal(b.settlement_date)

\* the settlements of a truck in the order the query returns them
Chronological(truck_id) ==
  LET rows == {r \in settlements : r.truck_id = truck_id}
  IN  CHOOSE o \in Orders(rows) :
        \A i, j \in 1..Cardinality(rows) : i < j => OrderedBefore(o[i], o[j])

\* the repairs of a truck, by repair date
TruckRepairs(truck_id) == SelectSeq(repairs, LAMBDA r : r.truck_id = truck_id)

\* the while loop over the repairs dated up to a settlement:
\* <<repair_index, cumulative_repair_costs>>
RECURSIVE AddRepairs(_, _, _, _)
AddRepairs(reps, repair_index, cumulative_repair_costs, settlement_date) ==
  IF /\ repair_index < Len(reps)
     /\ Ordinal(reps[repair_index + 1].repair_date) <= Ordinal(settlement_date)
  THEN AddRepairs(reps, repair_index + 1,
                  RAdd(cumulative_repair_costs, OrZero(reps[repair_index + 1].cost)),
                  settlement_date)
  ELSE <<repair_index, cumulative_repair_costs>>

\* the interest rate of a truck, 7% when none is stored
RateOf(truck) == IF Truthy(truck.interest_rate) THEN truck.interest_rate ELSE <<7, 100>>

\* the loop variables before the first settlement of a truck
StartOf(truck) ==
  [current_loan_balance |->
     IF truck.current_loan_balance = NoneR THEN truck.loan_amount
     ELSE truck.current_loan_balance,
   cumulative_revenue |-> Zero, cumulative_settlement_expenses |-> Zero,
   cumulative_repair_costs |-> Zero, repair_index |-> 0, updated |-> {}, lines |-> <<>>]

\* settlement.expenses after the old interest is taken out and the new one added
NewExpenses(acc, settlement, truck) ==
  RAdd(RSub(OrZero(settlement.expenses), OrZero(settlement.loan_interest)),
       calculate_weekly_loan_interest(acc.current_loan_balance, RateOf(truck)))

\* cumulative_net_profit once the settlement is counted
CumulativeNetProfit(acc, settlement, truck, reps) ==
  RSub(RSub(RAdd(acc.cumulative_revenue, OrZero(settlement.gross_revenue)),
            RAdd(acc.cumulative_settlement_expenses, NewExpenses(acc, settlement, truck))),
       AddRepairs(reps, acc.repair_index, acc.cumulative_repair_costs,
                  get_settlement_date(settlement))[2])

\* <<principal_payment, new_loan_balance>> of one settlement
PaymentOf(acc, settlement, truck, reps) ==
  IF Truthy(truck.cash_investment) /\ RGt(truck.cash_investment, Zero)
  THEN calculate_principal_payment(CumulativeNetProfit(acc, settlement, truck, reps),
                                   truck.cash_investment, acc.current_loan_balance)
  ELSE <<Zero, acc.current_loan_balance>>

\* the balance carried to the next settlement
BalanceAfter(acc, pay) == IF RGt(pay[1], Zero) THEN pay[2] ELSE acc.current_loan_balance

\* the body of the loop over the settlements of a truck
RecalculateOne(acc, settlement, truck, reps, pay) ==
  [current_loan_balance |-> BalanceAfter(acc, pay),
   cumulative_revenue |-> RAdd(acc.cumulative_revenue, OrZero(settlement.gross_revenue)),
   cumulative_settlement_expenses |->
     RAdd(acc.cumulative_settlement_expenses, NewExpenses(acc, settlement, truck)),
   cumulative_repair_costs |->
     AddRepairs(reps, acc.repair_index, acc.cumulative_repair_costs,
                get_settlement_date(settlement))[2],
   repair_index |->
     AddRepairs(reps, acc.repair_index, acc.cumulative_repair_costs,
                get_settlement_date(settlement))[1],
   updated |->
     acc.updated \cup
       {[settlement EXCEPT
           !.expenses = NewExpenses(acc, settlement, truck),
           !.net_profit = RSub(OrZero(settlement.gross_revenue),
                               NewExpenses(acc, settlement, truck)),
           !.loan_interest =
             calculate_weekly_loan_interest(acc.current_loan_balance, RateOf(truck))]},
   lines |->
     Append(acc.lines,
            [settlement |-> settlement.id,
             interest |-> calculate_weekly_loan_interest(acc.current_loan_balance,
                                                         RateOf(truck)),
             principal |-> pay[1],
             balance |-> BalanceAfter(acc, pay)])]

RECURSIVE RecalculateAll(_, _, _, _)
RecalculateAll(acc, rows, truck, reps) ==
  IF rows = <<>> THEN acc
  ELSE RecalculateAll(RecalculateOne(acc, Head(rows), truck, reps,
                                     PaymentOf(acc, Head(rows), truck, reps)),
                      Tail(rows), truck, reps)

\* the loop variables after the last settlement of a truck
Recalculated(truck) ==
  RecalculateAll(StartOf(truck), Chronological(truck.id), truck, TruckRepairs(truck.id))

\* the trucks the recalculation selects: trucks with a loan
LoanTrucks ==
  {t \in trucks : t.vehicle_type = "truck" /\ t.loan_amount # NoneR
                    /\ RGt(t.loan_amount, Zero)}

\* migrate_recalculate_loan_interest. The query names Truck.loan_amount, for
\* which class Truck declares no column: whether the mapped class carries the
\* columns the migrate_add_* scripts add to the table depends on the
\* declarative Base, hence the parameter
migrate_recalculate_loan_interest(mapped) ==
  /\ IF ~mapped
     THEN /\ printed' = [ran |-> TRUE, raised |-> TRUE, lines |-> <<>>]
          /\ UNCHANGED <<trucks, settlements>>
     ELSE /\ trucks' =
               {IF t \in LoanTrucks
                THEN [t EXCEPT !.current_loan_balance = Recalculated(t).current_loan_balance]
                ELSE t : t \in trucks}
          /\ settlements' =
               {r \in settlements : \A t \in LoanTrucks : r.truck_id # t.id}
                 \cup UNION {Recalculated(t).updated : t \in LoanTrucks}
          /\ printed' = [ran |-> TRUE, raised |-> FALSE,
                         lines |-> [id \in {t.id : t \in LoanTrucks} |->
                                      Recalculated(CHOOSE t \in LoanTrucks : t.id = id).lines]]
  /\ UNCHANGED <<extractVars, response, sessions, autoflush, workdir, consolidated, repairs>>

\* a truck bought with a loan of 5200 at 7%, and a trailer
LoanTruck(cash_investment, current_loan_balance) ==
  [TruckRow(1, "Volvo 417", "truck", VW9327, <<VW9327>>) EXCEPT
     !.cash_investment = cash_investment, !.loan_amount = R(5200),
     !.current_loan_balance = current_loan_balance, !.interest_rate = <<7, 100>>]
Trailer == TruckRow(2, "Trailer 1", "trailer", NoPlate, <<>>)

LoanFleets ==
  {{LoanTruck(c, b), Trailer} : c \in {NoneR, R(1000)}, b \in {NoneR, R(5200)}}

\* the weekly settlements of the truck: up to MaxWeeks weeks, each a good or a
\* poor week, with or without week_start, and one settlement of the trailer
Ledgers ==
  UNION {{{LoanSettlement(w, 1, Weeks[w], IF ws THEN Weeks[w] ELSE NoDate, g[w], R(500)) :
             w \in 1..n}
            \cup {LoanSettlement(MaxWeeks + 1, 2, Weeks[1], NoDate, R(300), R(100))} :
            g \in [1..n -> {R(2000), R(600)}], ws \in BOOLEAN} :
         n \in 1..MaxWeeks}

RepairLogs == {<<>>, <<Repair(1, Weeks[1], R(200))>>}

InitLoans ==
  /\ NothingUploaded
  /\ trucks \in LoanFleets
  /\ response = NoResponse
  /\ settlements \in Ledgers
  /\ sessions = [c \in Clients |-> NoSession]
  /\ autoflush = TRUE
  /\ workdir = NoFiles
  /\ consolidated = NotRun
  /\ repairs \in RepairLogs
  /\ printed = NotPrinted

NextLoans == \E mapped \in BOOLEAN : migrate_recalculate_loan_interest(mapped)

SpecLoans == InitLoans /\ [][NextLoans]_vars

\* =============================================================== properties
Runs == 1..Len(runs)
Result(k) == runs[k].result

\* |x - y| <= 0.01
Within(x, y) == RLe(RAbs(RSub(x, y)), Tolerance)

\* the reimbursement a parser record carries (0 when it has no such entry)
ReimbursementOf(st) ==
  IF "reimbursement" \in DOMAIN st.expense_categories
  THEN st.expense_categories["reimbursement"] ELSE Zero

\* the records of run k as they stand before the two reconciliations
Allocated(k) == Result(k).allocated

\* C1: every record either parser produces (after all reconciliation) has
\* net_profit equal to gross_revenue minus expenses within 0.01, or, counting
\* the reimbursement it carries, net_profit minus reimbursement equal to it.
C1_NetProfitIdentity ==
  \A k \in Runs : \A i \in 1..Len(Result(k).parsed) :
    LET st == Result(k).parsed[i]
    IN  (st.gross_revenue # NoneR /\ st.expenses # NoneR /\ st.net_profit # NoneR) =>
          \/ Within(st.net_profit, RSub(st.gross_revenue, st.expenses))
          \/ Within(RSub(st.net_profit, ReimbursementOf(st)),
                    RSub(st.gross_revenue, st.expenses))

\* C2: in every record extract_from_pdf emits, total_expenses equals the sum of
\* the values of the record's expense-category mapping within 0.01.
C2_ExpensesAreCategorySum ==
  \A k \in Runs : \A i \in 1..Len(Result(k).settlements) :
    LET out == Result(k).settlements[i]
    IN  Within(out.total_expenses, SumValues(out.categories))

\* C3: whenever the document states a total gross revenue, the gross_revenue of
\* the per-vehicle records the multi-vehicle parser returns sums to that total
\* within 0.01, whatever identifiers the block rows carry.
C3_RevenueConserved ==
  \A k \in Runs :
    (Result(k).path = "multi" /\ ~Result(k).raised /\ Result(k).parsed # <<>>
       /\ Plain(doc, "Gross Pay") # NoneR) =>
      Within(SumField(Result(k).parsed, "gross_revenue"), Plain(doc, "Gross Pay"))

\* C4: every record of the output carrying an identifier carries one of
\* VALID_LICENSE_PLATES, whichever parser produced it.
C4_OnlyWhitelistedPlates ==
  \A k \in Runs : \A i \in 1..Len(Result(k).settlements) :
    Result(k).settlements[i].license_plate # NoPlate =>
      Result(k).settlements[i].license_plate \in VALID_LICENSE_PLATES

\* C5: when the multi-vehicle parser returns N >= 2 records, each record's
\* insurance, safety, prepass and ifta is the document's stated amount over N.
C5_SharedCostsOverN ==
  \A k \in Runs :
    (Result(k).path = "multi" /\ Len(Result(k).parsed) >= 2) =>
      \A i \in 1..Len(Result(k).parsed) : \A key \in SeqToSet(SharedKeys) :
        Result(k).parsed[i].expense_categories[key]
          = RDiv(shared_expenses_dict(doc)[key], R(Len(Result(k).parsed)))

\* what a caller receives from a run: the envelope, the records in order, the
\* validation report
Output(k) ==
  [extraction_date |-> Result(k).extraction_date,
   settlement_type |-> Result(k).settlement_type,
   settlements |-> Result(k).settlements,
   validation |-> Result(k).validation]

\* C6: two runs of extract_from_pdf on the same document give the same output:
\* every envelope field, the order of the records, and the amounts that depend
\* on which vehicle is the first one.
C6_Idempotent == Len(runs) = 2 => Output(1) = Output(2)

\* a parser record in which nothing was found
DataLess(st) ==
  /\ st.settlement_date = NoDate
  /\ st.license_plate = NoPlate
  /\ st.gross_revenue = NoneR
  /\ st.net_profit = NoneR
  /\ st.expenses = NoneR
  /\ st.miles_driven = NoneR
  /\ st.blocks_delivered = NoCount
  /\ st.driver_name = ""

\* C7: a run that extracts no valid settlement (no record, or only records with
\* no date, no amount and no identifier) ends in a failure, never in a
\* successful response.
C7_NoEmptySuccess ==
  \A k \in Runs :
    (\A i \in 1..Len(Result(k).parsed) : DataLess(Result(k).parsed[i])) =>
      runs[k].status \notin {"200", "success"}

\* C8: in the multi-vehicle parser, when the stated net pay differs from the
\* summed net profit by more than 0.01 and both the reimbursement total and the
\* deductions total are 0, the whole residual is added to the first record's
\* custom category and to its expenses.
C8_ResidualToFirstVehicle ==
  \A k \in Runs :
    LET pre == AdjustFuel(doc, Allocated(k))
        residual == RSub(SumField(pre, "net_profit"), pdf_net_pay(doc))
    IN  (Result(k).path = "multi" /\ ~Result(k).raised /\ Result(k).parsed # <<>>
           /\ pdf_net_pay(doc) # NoneR
           /\ reimbursement_total(doc) = Zero /\ deductions_total(doc) = Zero
           /\ RGt(RAbs(residual), Tolerance)) =>
          /\ Result(k).parsed[1].expense_categories["custom"]
               = RAdd(pre[1].expense_categories["custom"], residual)
          /\ Result(k).parsed[1].expenses = RAdd(pre[1].expenses, residual)

\* the stated fuel total differs from the summed per-vehicle fuel by more than 0.01
FuelMismatch(k) ==
  /\ fuel_total_from_pdf(doc) # NoneR
  /\ RGt(RAbs(RSub(fuel_total_from_pdf(doc), SumField(Allocated(k), "fuel"))), Tolerance)

\* the stated net pay differs from the summed per-vehicle net profit by more than 0.01
NetPayMismatch(k) ==
  /\ pdf_net_pay(doc) # NoneR
  /\ RGt(RAbs(RSub(SumField(AdjustFuel(doc, Allocated(k)), "net_profit"), pdf_net_pay(doc))),
         Tolerance)

\* C9: when validation is requested and the multi-vehicle parser finds a fuel or
\* net-pay total off by more than 0.01, the validation report holds at least one
\* warning or error.
C9_MismatchIsReported ==
  \A k \in Runs :
    (Result(k).path = "multi" /\ Result(k).validation.present /\ Result(k).parsed # <<>>
       /\ (FuelMismatch(k) \/ NetPayMismatch(k))) =>
      Result(k).validation.errors \o Result(k).validation.warnings # <<>>

\* C10: miles_driven, blocks_delivered, gross_revenue and net_profit are unset
\* in the output exactly when the parser did not find them.
C10_MissingStaysUnset ==
  \A k \in Runs : \A i \in 1..Len(Result(k).settlements) :
    LET st == Result(k).parsed[i]
        out == Result(k).settlements[i]
    IN  /\ (st.miles_driven = NoneR) <=> (out.miles_driven = NoneR)
        /\ (st.blocks_delivered = NoCount) <=> (out.blocks_delivered = NoCount)
        /\ (st.gross_revenue = NoneR) <=> (out.gross_revenue = NoneR)
        /\ (st.net_profit = NoneR) <=> (out.net_profit = NoneR)

\* the whitelisted identifiers each extraction strategy of the classifier finds
\* on its own: the "Plate#:" line, the block rows, and "VW" plus four digits
\* embedded in the text of a block row
BlockTokens(d) == {d.blocks[i].token : i \in 1..Len(d.blocks)} \ {NoPlate}
HeaderStrategy(d) == {p \in SeqToSet(d.header) : Len(p) >= 5} \cap VALID_LICENSE_PLATES
BlockStrategy(d) == BlockTokens(d) \cap VALID_LICENSE_PLATES
EmbeddedStrategy(d) == {ReconstructVW(t) : t \in BlockTokens(d)} \cap VALID_LICENSE_PLATES

C12_OnlyWhitelistedMakeMulti ==
  \A k \in Runs :
    _detect_multiple_trucks(doc) =>
      Cardinality(HeaderStrategy(doc) \cup BlockStrategy(doc) \cup EmbeddedStrategy(doc)) >= 2

\* C13: the records of a run come from the multi-vehicle allocation path exactly
\* when the classifier marked the document multi-vehicle.
C13_ClassifierDecides ==
  \A k \in Runs :
    Result(k).parsed # <<>> => ((Result(k).path = "multi") <=> _detect_multiple_trucks(doc))

\* a validation result is valid exactly when it has no error, and keeps the
\* error-level issues apart from the warnings
WellFormedValidation(v) ==
  /\ v.is_valid <=> (v.errors = <<>>)
  /\ \A i \in 1..Len(v.errors) : v.errors[i].level = "error"
  /\ \A i \in 1..Len(v.warnings) : v.warnings[i].level = "warning"

C16_CategoriesNonNegative ==
  \A k \in Runs : \A i \in 1..Len(Result(k).settlements) :
    \A c \in DOMAIN Result(k).settlements[i].categories :
      RLe(Zero, Result(k).settlements[i].categories[c])

\* a block row whose identifier, after leading-letter normalisation and the
\* correction table, is not whitelisted
RejectedBlock(b) == b.token # NoPlate /\ NormalizeBlockPlate(b.token) \notin VALID_LICENSE_PLATES

\* the document without its rejected block rows
WithoutRejected(d) == [d EXCEPT !.blocks = SelectSeq(d.blocks, LAMBDA b : ~RejectedBlock(b))]

\* C17: the records the multi-vehicle allocator builds (gross revenue, driver
\* pay, fuel and block count of every vehicle) are those it builds from the
\* same document with the rejected block rows removed.
C17_RejectedBlockIsInert ==
  \A k \in Runs :
    Result(k).path = "multi" =>
      Allocated(k) \in {AllocatedSettlements(WithoutRejected(doc), ord) :
                          ord \in Orders(valid_plates(WithoutRejected(doc)))}

\* a multi-vehicle run on a document holding a rejected block row that carries
\* amounts and fuel, between accepted rows
C17_Witness ==
  \E k \in Runs :
    /\ Result(k).path = "multi"
    /\ Allocated(k) # <<>>
    /\ \E i \in 1..Len(doc.blocks) :
         /\ RejectedBlock(doc.blocks[i])
         /\ Len(DollarAmounts(doc.blocks[i])) >= 2
         /\ doc.blocks[i].fuelNext # Zero

\* the driver's pay and payroll fee figures the document prints
PrintedDriversPay(d) == FirstItem(d.items, "Driver's Pay")
PrintedPayrollFee(d) == FirstItem(d.items, "Payroll Fee")

\* C20: in the single-vehicle categorizer, for a type that is not one of the
\* explicit-pay types and without block-derived driver pay, a printed payroll
\* fee is the payroll_fee and driver_pay is the printed driver's pay minus it;
\* without a printed fee driver_pay is printed / 1.065 and payroll_fee is
\* driver_pay * 0.065; both sum to the printed driver's pay.
C20_DriverPaySplit ==
  \A k \in Runs :
    (/\ Result(k).path = "single"
     /\ Len(Result(k).parsed) = 1
     /\ Upper(ResolvedType(doc, hint)) \notin ExplicitPayTypes
     /\ ~BlockPayFound(total_driver_pay_from_blocks(doc))
     /\ PrintedDriversPay(doc) # NoneR) =>
      LET cats == Result(k).parsed[1].expense_categories
          base == RDiv(PrintedDriversPay(doc), RAdd(R(1), PayrollRate))
      IN  /\ PrintedPayrollFee(doc) # NoneR =>
               /\ cats["payroll_fee"] = PrintedPayrollFee(doc)
               /\ cats["driver_pay"] = RSub(PrintedDriversPay(doc), PrintedPayrollFee(doc))
          /\ PrintedPayrollFee(doc) = NoneR =>
               /\ cats["driver_pay"] = base
               /\ cats["payroll_fee"] = RMul(base, PayrollRate)
          /\ RAdd(cats["driver_pay"], cats["payroll_fee"]) = PrintedDriversPay(doc)

\* no two stored vehicles share name and vehicle type
UniqueVehicles ==
  \A r \in trucks : \A t \in trucks :
    (r.name = t.name /\ r.vehicle_type = t.vehicle_type) => r = t

\* a create_truck request for a name and vehicle type already stored is answered
\* with an error status and leaves the table as it was
DuplicateCreateFails ==
  (/\ response'.op = "create_truck"
   /\ \E t \in trucks : <<t.name, t.vehicle_type>> = response'.key) =>
    (trucks' = trucks /\ response'.status \in {"400", "500"})

\* C18: after any sequence of create_truck and update_truck requests no two
\* stored vehicles share (name, vehicle_type), and creating a duplicate fails
\* with an error status and leaves the stored vehicles unchanged.
C18_UniqueNamePerType == []UniqueVehicles /\ [][DuplicateCreateFails]_vars

\* a duplicate create_truck was refused with two vehicles stored, one of them
\* of that name and vehicle type
C18_Witness ==
  /\ response.op = "create_truck"
  /\ response.status = "400"
  /\ Cardinality(trucks) >= 2
  /\ \E t \in trucks : <<t.name, t.vehicle_type>> = response.key

\* no two stored settlements share vehicle and settlement date
UniqueSettlements ==
  \A r \in settlements : \A t \in settlements :
    (r.truck_id = t.truck_id /\ r.settlement_date = t.settlement_date) => r = t

\* a request answered with an error status leaves the stored settlements as
\* they were
ErrorLeavesSettlements ==
  (response' # response /\ response'.status \in {"400", "404", "500"}) =>
    settlements' = settlements

\* a step stores no row for a vehicle and date that another row already held
NoDuplicateStored ==
  \A r \in settlements' \ settlements : \A t \in settlements :
    (r.truck_id = t.truck_id /\ r.settlement_date = t.settlement_date) => r.id = t.id

\* C15: under any interleaving of create_settlement, upload_settlement_pdf,
\* upload_settlement_pdf_bulk, upload_settlement_json and update_settlement
\* requests no two stored settlements share (truck_id, settlement_date); a
\* request that would store a duplicate is refused or its record skipped, and a
\* refused request leaves the stored settlements unchanged.
C15_OneSettlementPerTruckAndDate ==
  []UniqueSettlements /\ [][ErrorLeavesSettlements /\ NoDuplicateStored]_vars

\* the commit of a request that had passed its duplicate check was refused by
\* the table, with settlements stored
C15_Witness ==
  /\ response.key = <<"IntegrityError">>
  /\ response.op \in {"create_settlement", "upload_settlement_pdf", "upload_settlement_json"}
  /\ settlements # {}

\* C19: the settlements consolidate_settlements returns hold no two entries of
\* the same settlement_date|license_plate key, from phase files as from a
\* directory scan, and total_settlements is their number and the sum of the
\* three per-source counters.
C19_ConsolidatedKeysDistinct ==
  (consolidated.ran /\ ~consolidated.raised) =>
    /\ \A i \in 1..Len(consolidated.settlements) :
         \A j \in 1..Len(consolidated.settlements) :
           get_settlement_key(consolidated.settlements[i])
             = get_settlement_key(consolidated.settlements[j]) => i = j
    /\ consolidated.total_settlements = Len(consolidated.settlements)
    /\ consolidated.total_settlements =
         consolidated.sources.phase1_single_truck + consolidated.sources.phase2_multi_truck
           + consolidated.sources.individual_files

\* a directory scan that kept entries of two sources and left out an entry
\* whose key it had seen
C19_Witness ==
  /\ consolidated.ran
  /\ ~consolidated.raised
  /\ ~workdir.phase1_file.given /\ ~workdir.phase2_file.given
  /\ consolidated.sources.phase1_single_truck >= 1
  /\ consolidated.sources.individual_files >= 1
  /\ consolidated.total_settlements >= 2
  /\ \E f \in workdir.extracted : \E i \in 1..Len(f.settlements) :
       ~f.phase_named /\ \A k \in 1..Len(consolidated.settlements) :
         consolidated.settlements[k].source_file = f.name =>
           get_settlement_key(consolidated.settlements[k]) # get_settlement_key(f.settlements[i])

\* C21: in the single-vehicle parser, when the categorizer finds no expense
\* and the document prints both a gross pay and a net pay (0.00 included),
\* expenses is gross pay minus net pay and the custom category holds that
\* whole difference.
C21_DifferenceBookedAsCustom ==
  \A k \in Runs :
    (/\ Result(k).path = "single"
     /\ Len(Result(k).parsed) = 1
     /\ FirstItem(doc.items, "Gross Pay") # NoneR
     /\ FirstItem(doc.items, "Net Pay") # NoneR
     /\ ~RGt(Categorize(doc, ResolvedType(doc, hint), FirstItem(doc.items, "Gross Pay")).total,
             Zero)) =>
      /\ Result(k).parsed[1].expenses =
           RSub(FirstItem(doc.items, "Gross Pay"), FirstItem(doc.items, "Net Pay"))
      /\ Result(k).parsed[1].expense_categories["custom"] =
           RSub(FirstItem(doc.items, "Gross Pay"), FirstItem(doc.items, "Net Pay"))

\* the dispatch_fee amounts of a sequence of parser records
DispatchFees(ss) == [i \in 1..Len(ss) |-> ss[i].expense_categories["dispatch_fee"]]

\* C22: every record of the multi-vehicle allocator carries as dispatch_fee the
\* stated dispatch fee times its gross revenue over the total gross revenue of
\* the records, and the dispatch_fee amounts of the records sum to the stated
\* dispatch fee (within 0.01); both before and after reconciliation.
C22_DispatchFeeProportional ==
  \A k \in Runs :
    Result(k).path = "multi" =>
      \A ss \in {Allocated(k), Result(k).parsed} :
        ss # <<>> =>
          /\ \A i \in 1..Len(ss) :
               ss[i].expense_categories["dispatch_fee"] =
                 RDiv(RMul(dispatch_fee_total(doc), ss[i].gross_revenue),
                      SumField(ss, "gross_revenue"))
          /\ Within(SumSeq(DispatchFees(ss)), dispatch_fee_total(doc))

\* a multi-vehicle run on a statement with a dispatch fee whose two vehicles
\* earned different revenue
C22_Witness ==
  \E k \in Runs :
    /\ Result(k).path = "multi"
    /\ Len(Result(k).parsed) = 2
    /\ RGt(dispatch_fee_total(doc), Zero)
    /\ Result(k).parsed[1].gross_revenue # Result(k).parsed[2].gross_revenue
    /\ Result(k).parsed[1].expense_categories["dispatch_fee"] #
         Result(k).parsed[2].expense_categories["dispatch_fee"]

\* the fuel adjustment record i of run k is due: its share, by gross revenue,
\* of the stated fuel total less the summed per-vehicle fuel
FuelAdjustment(k, i) ==
  RDiv(RMul(RSub(fuel_total_from_pdf(doc), SumField(Allocated(k), "fuel")),
            Allocated(k)[i].gross_revenue),
       SumField(Allocated(k), "gross_revenue"))

\* the summed net profit of run k once every record took its fuel adjustment
FuelCorrectedNet(k) ==
  SumSeq([i \in 1..Len(Allocated(k)) |->
            RSub(Allocated(k)[i].net_profit, FuelAdjustment(k, i))])

\* what the net-pay reconciliation added to the custom category of record i
CustomAdded(k, i) ==
  RSub(Result(k).parsed[i].expense_categories["custom"],
       Allocated(k)[i].expense_categories["custom"])

\* C23: when the stated fuel total differs from the summed per-vehicle fuel by
\* more than 0.01, every record's fuel grows by its share of the residual in
\* proportion to gross revenue and the fuel amounts then sum to the stated
\* total; the net-pay reconciliation runs on the corrected figures, so every
\* final record's expenses and net_profit include its fuel adjustment and a
\* net-pay residual is measured against the fuel-corrected profit.
C23_FuelReconciledFirst ==
  \A k \in Runs :
    (Result(k).path = "multi" /\ Result(k).parsed # <<>> /\ FuelMismatch(k)) =>
      /\ Len(Result(k).parsed) = Len(Allocated(k))
      /\ SumField(Result(k).parsed, "fuel") = fuel_total_from_pdf(doc)
      /\ \A i \in 1..Len(Result(k).parsed) :
           LET st == Result(k).parsed[i]
           IN  /\ FuelOf(st) = RAdd(FuelOf(Allocated(k)[i]), FuelAdjustment(k, i))
               /\ st.expenses = RAdd(RAdd(Allocated(k)[i].expenses, FuelAdjustment(k, i)),
                                     CustomAdded(k, i))
               /\ st.net_profit \in {RSub(st.gross_revenue, st.expenses),
                                      RAdd(RSub(st.gross_revenue, st.expenses), ReimbOf(st))}
               /\ CustomAdded(k, i) \in {Zero, RSub(FuelCorrectedNet(k), pdf_net_pay(doc))}

\* a run in which both reconciliations acted: the fuel residual was distributed
\* over two vehicles and the net-pay residual then went to the first record
C23_Witness ==
  \E k \in Runs :
    /\ Result(k).path = "multi"
    /\ Len(Result(k).parsed) = 2
    /\ FuelMismatch(k)
    /\ FuelAdjustment(k, 1) # Zero
    /\ FuelAdjustment(k, 2) # Zero
    /\ pdf_net_pay(doc) # NoneR
    /\ CustomAdded(k, 1) # Zero

\* the identifiers of the document in the order they are printed: the
\* "Plate#:" line, then the block rows
PrintedPlates(d) ==
  header_plates(d) \o
    [i \in 1..Len(d.blocks) |->
       IF d.blocks[i].token = NoPlate THEN NoPlate ELSE BlockSetPlate(d.blocks[i].token)]

\* the known identifiers in document order, each at its first occurrence
DocumentOrder(d) ==
  SelectSeq([i \in 1..Len(PrintedPlates(d)) |->
               IF /\ PrintedPlates(d)[i] \in valid_plates(d)
                  /\ \A j \in 1..(i - 1) : PrintedPlates(d)[j] # PrintedPlates(d)[i]
               THEN PrintedPlates(d)[i] ELSE NoPlate],
            LAMBDA p : p # NoPlate)

\* what the block rows brought each vehicle: revenue, driver pay, block count
BlockTotals(ss) ==
  {<<ss[i].license_plate, ss[i].gross_revenue, ss[i].expense_categories["driver_pay"],
     ss[i].blocks_delivered>> : i \in 1..Len(ss)}

\* C24: in the multi-vehicle allocator a block row without identifier goes to
\* the vehicle already associated with its driver name, else to the first
\* known identifier in document order: every vehicle's revenue, driver pay
\* and block count are those obtained with the identifiers taken in document
\* order.
C24_UnidentifiedBlockToFirstInDocument ==
  \A k \in Runs :
    (/\ Result(k).path = "multi"
     /\ \E i \in 1..Len(doc.blocks) : doc.blocks[i].token = NoPlate) =>
      BlockTotals(Allocated(k)) = BlockTotals(AllocatedSettlements(doc, DocumentOrder(doc)))

\* the custom amounts of a sequence of parser records
CustomAmounts(ss) == [i \in 1..Len(ss) |-> ss[i].expense_categories["custom"]]

\* C25: before reconciliation, the record of the first identifier in document
\* order carries the stated deductions as custom, every other record carries
\* 0, and the custom amounts sum to the stated deductions.
C25_DeductionsToFirstInDocument ==
  \A k \in Runs :
    (Result(k).path = "multi" /\ Allocated(k) # <<>>) =>
      /\ \A i \in 1..Len(Allocated(k)) :
           Allocated(k)[i].expense_categories["custom"] =
             IF Allocated(k)[i].license_plate = DocumentOrder(doc)[1]
             THEN deductions_total(doc) ELSE Zero
      /\ SumSeq(CustomAmounts(Allocated(k))) = deductions_total(doc)

C27_NetProfitMatchesNetPay ==
  \A k \in Runs :
    (Result(k).path = "multi" /\ Result(k).parsed # <<>> /\ pdf_net_pay(doc) # NoneR) =>
      Within(SumField(Result(k).parsed, "net_profit"), pdf_net_pay(doc))

\* C28: validate_net_profit reports no error on the records the multi-vehicle
\* allocator produces, with or without a reimbursement.
C28_AllocatorPassesNetProfitCheck ==
  \A k \in Runs :
    (Result(k).path = "multi" /\ Result(k).parsed # <<>>) =>
      validate_net_profit(Result(k).parsed) = <<>>

\* the net profit a truck has accumulated up to its i-th settlement in
\* chronological order, as the stored rows and the repairs give it
RECURSIVE NetProfitUpTo(_, _)
NetProfitUpTo(rows, i) ==
  IF i = 0 THEN Zero ELSE RAdd(NetProfitUpTo(rows, i - 1), rows[i].net_profit)

RECURSIVE RepairCostsUpTo(_, _, _)
RepairCostsUpTo(reps, i, date) ==
  IF i = 0 THEN Zero
  ELSE RAdd(RepairCostsUpTo(reps, i - 1, date),
            IF Ordinal(reps[i].repair_date) <= Ordinal(date) THEN reps[i].cost ELSE Zero)

CumulativeNetOf(id, i) ==
  RSub(NetProfitUpTo(Chronological(id), i),
       RepairCostsUpTo(TruckRepairs(id), Len(TruckRepairs(id)),
                       get_settlement_date(Chronological(id)[i])))

RECURSIVE PrincipalUpTo(_, _)
PrincipalUpTo(lines, i) ==
  IF i = 0 THEN Zero ELSE RAdd(PrincipalUpTo(lines, i - 1), lines[i].principal)

====
